---- MODULE Spec2Model ----
(***************************************************************************)
(* Model of the pulumi-twentysix provider (package basics): the Account,   *)
(* Volume and Function resources with their Create / Diff / Delete         *)
(* handlers, the TwentySixClient calls they make, and the environment the  *)
(* handlers talk to: the local folder, the aleph message index and the     *)
(* scheduler.  Go strings are TLA+ strings, "" is the empty string, the    *)
(* error value nil is the string "nil".                                    *)
(***************************************************************************)
EXTENDS Integers, Sequences, FiniteSets, TLC

VARIABLES
    now,      \* the clock read by time.Now() when a message is stamped
    folder,   \* content of the directory at DataPath ("none": it is missing)
    index,    \* messages the index resolves (processed, not forgotten)
    sched,    \* item hashes the scheduler holds an allocation for
    acct,     \* the account state the lifecycle host holds
    vols,     \* the volume state the lifecycle host holds (at most one)
    funs,     \* the function state the lifecycle host holds (at most one)
    made,     \* history: the arguments and directory content of the Create that
              \* returned the volume state held
    forgets,  \* history: the FORGET broadcasts, and whether the index took them
    pc,       \* "idle", or "polling" inside TwentySixFunction.Create
    poll,     \* locals of the polling loop of TwentySixFunction.Create
    ret,      \* what the last handler returned, and the requests it made
    tmp,      \* the files /tmp/pulumi-squashfs-<second>.squashfs, by second
    proc      \* the TwentySixVolume.Create calls running at the same time

vars == <<now, folder, index, sched, acct, vols, funs, made, forgets, pc, poll, ret,
          tmp, proc>>

\* Bounds of the model.
MaxNow == 3
MaxPolls == 2

\* function.go:142 and function.go:145
timeout == 1800
Interval == 10

----------------------------------------------------------------------------
\* Identity: account.go (second half of volume.go)

GoodKeys == {"0xk1", "0xd0", "0xd1"}

\* hexutil.Decode accepts 0x-prefixed hex; crypto.ToECDSA rejects the zero scalar.
HexDecodeOk(k) == k \in GoodKeys \cup {"0x00"}

ToECDSAOk(k) == k \in GoodKeys

PublicKeyOf(k) == "pub(" \o k \o ")"

\* An address that changes with the second at which it is derived.
AddressOfAtTime(k) == "addr(" \o k \o "@" \o ToString(now) \o ")"

AddressOf(k) == "addr(" \o k \o ")"

DefaultDerivationPath == "m/44'/60'/0'/0/0"

MnemonicOk(m) == m = "mn1"

DerivationPathOk(p) == p \in {DefaultDerivationPath, "m/44'/60'/0'/0/1"}

\* wallet.Derive + wallet.PrivateKeyBytes: the key at a path of the wallet.
DeriveKey(m, p) == IF p = DefaultDerivationPath THEN "0xd0" ELSE "0xd1"

ZeroAccount ==
    [PrivateKey |-> "", Mnemonic |-> "", DerivationPath |-> "",
     Address |-> "", PublicKey |-> ""]

AccountArgs(pk, mn, dp) ==
    [PrivateKey |-> pk, Mnemonic |-> mn, DerivationPath |-> dp]

\* state := TwentySixAccountState{TwentySixAccountArgs: input}
AccountStateOf(input) ==
    [PrivateKey |-> input.PrivateKey, Mnemonic |-> input.Mnemonic,
     DerivationPath |-> input.DerivationPath, Address |-> "", PublicKey |-> ""]

\* An account Create that derives nothing and reports success.
AccountCreateUnchecked(name, input, preview) ==
    [id |-> name, state |-> AccountStateOf(input), err |-> "nil"]

\* TwentySixAccount.Create: the (id, state, error) it returns.  "fatal" is
\* log.Fatal (the process exits), "panic" is MustParseDerivationPath panicking.
AccountCreate(name, input, preview) ==
    LET state == AccountStateOf(input) IN
    IF preview THEN [id |-> name, state |-> state, err |-> "nil"]
    ELSE IF Len(state.PrivateKey) > 0 THEN
        IF ~HexDecodeOk(input.PrivateKey)
        THEN [id |-> "", state |-> ZeroAccount, err |-> "error casting public key to bytes"]
        ELSE IF ~ToECDSAOk(input.PrivateKey)
        THEN [id |-> "", state |-> ZeroAccount, err |-> "error casting public key to ECDSA"]
        ELSE [id |-> name, err |-> "nil",
              state |-> [state EXCEPT !.PublicKey = PublicKeyOf(input.PrivateKey),
                                      !.Address = AddressOf(input.PrivateKey)]]
    ELSE IF Len(state.Mnemonic) > 0 THEN
        IF ~MnemonicOk(state.Mnemonic)
        THEN [id |-> "", state |-> ZeroAccount, err |-> "fatal"]
        ELSE LET dp == IF Len(state.DerivationPath) = 0
                       THEN DefaultDerivationPath ELSE state.DerivationPath
             IN  IF ~DerivationPathOk(dp)
                 THEN [id |-> "", state |-> ZeroAccount, err |-> "panic"]
                 ELSE LET k == DeriveKey(state.Mnemonic, dp) IN
                      [id |-> name, err |-> "nil",
                       state |-> [state EXCEPT !.DerivationPath = dp,
                                               !.PrivateKey = k,
                                               !.PublicKey = PublicKeyOf(k),
                                               !.Address = AddressOf(k)]]
    ELSE [id |-> "", state |-> ZeroAccount, err |-> "no private key or mnemonic provided"]

\* The TwentySixVolume.Create calls the engine runs at the same time, and a
\* call that has not begun.
Procs == {1, 2}

NotStarted ==
    [pc |-> "start", path |-> 0, packed |-> "none", sent |-> "none", removed |-> "none",
     id |-> "", err |-> "nil", Size |-> 0, FolderHash |-> "", FileHash |-> "",
     MessageHash |-> ""]

\* The account arguments the lifecycle host passes.
AccountInputs ==
    { AccountArgs("0xk1", "", ""), AccountArgs("zz", "", ""), AccountArgs("0x00", "", ""),
      AccountArgs("", "bad", ""), AccountArgs("", "mn1", "junk"), AccountArgs("", "", "") }

----------------------------------------------------------------------------
\* Message model: messages.go (src/unnamed/part_001)

\* The digests the client computes (Sha256 below, the file hash "sha(...)" of
\* StoreFile) stand for 64 lowercase hexadecimal characters; the strings of
\* the model that are not of that format are the empty string and a hash of
\* another format that an index may answer.
Hex64(h) == h \notin {"", "QmForeign"}

\* sha256 + hex.EncodeToString of the JSON of a payload: one digest per payload.
Sha256(content) ==
    "sha(" \o content.kind \o "," \o content.address \o "," \o
    ToString(content.time) \o "," \o content.ref \o ")"

\* Message.getVerificationPayload
getVerificationPayload(msg) ==
    msg.Chain \o "\n" \o msg.Sender \o "\n" \o msg.Type \o "\n" \o msg.ItemHash

\* Message.SignMessage: it returns an error and leaves Signature empty when the
\* key does not decode; every caller in client.go drops that error.
SignMessage(msg, pkey) ==
    IF HexDecodeOk(pkey) /\ ToECDSAOk(pkey)
    THEN [msg EXCEPT !.Signature = "sig(" \o pkey \o "," \o getVerificationPayload(msg) \o ")"]
    ELSE msg

\* crypto.Sign: 65 bytes, R and S (here fill, repeated) followed by the
\* recovery id recid, which is 0 or 1.
CryptoSign(recid, fill) == [i \in 1..65 |-> IF i = 65 THEN recid ELSE fill]

\* A signature left as crypto.Sign returned it.
SignatureBytesRaw(recid, fill) == CryptoSign(recid, fill)

\* The bytes Message.SignMessage encodes into msg.Signature (part_001:242-249):
\* signature[crypto.RecoveryIDOffset] += 27 on a byte, RecoveryIDOffset being
\* the index of the last of the 65 bytes.
SignatureBytes(recid, fill) ==
    LET signature == CryptoSign(recid, fill) IN
    [signature EXCEPT ![Len(signature)] = (@ + 27) % 256]

\* The error Message.SignMessage returns.
SignMessageErr(pkey) ==
    IF ~HexDecodeOk(pkey) THEN "invalid hex string"
    ELSE IF ~ToECDSAOk(pkey) THEN "invalid private key"
    ELSE "nil"

ZeroMessage ==
    [Type |-> "", Chain |-> "", Sender |-> "", Time |-> 0, Channel |-> "",
     Signature |-> "", ItemHash |-> "", ItemType |-> "",
     ItemContent |-> [kind |-> "", address |-> "", time |-> 0, ref |-> ""]]

\* A builder that reads the clock again for the envelope, a second later.
BuildMessageTwoClocks(client, type, ref, t) ==
    LET content == [kind |-> type, address |-> client.account.Address,
                    time |-> t, ref |-> ref]
    IN  SignMessage(
          [Type |-> type, Chain |-> "ETH", Sender |-> client.account.Address,
           Time |-> t + 1, Channel |-> client.channel, Signature |-> "",
           ItemHash |-> Sha256(content), ItemType |-> "inline",
           ItemContent |-> content],
          client.account.PrivateKey)

\* A builder that hashes the payload before its time is set.
BuildMessageStaleHash(client, type, ref, t) ==
    LET content == [kind |-> type, address |-> client.account.Address,
                    time |-> t, ref |-> ref]
    IN  SignMessage(
          [Type |-> type, Chain |-> "ETH", Sender |-> client.account.Address,
           Time |-> t, Channel |-> client.channel, Signature |-> "",
           ItemHash |-> Sha256([content EXCEPT !.time = 0]), ItemType |-> "inline",
           ItemContent |-> content],
          client.account.PrivateKey)

\* The envelope StoreFile, CreateFunction and ForgetMessage build: the payload
\* carries the account address, the time and what the message refers to (the
\* file hash, the function spec, the hash to forget).
BuildMessage(client, type, ref, t) ==
    LET content == [kind |-> type, address |-> client.account.Address,
                    time |-> t, ref |-> ref]
    IN  SignMessage(
          [Type |-> type, Chain |-> "ETH", Sender |-> client.account.Address,
           Time |-> t, Channel |-> client.channel, Signature |-> "",
           ItemHash |-> Sha256(content), ItemType |-> "inline",
           ItemContent |-> content],
          client.account.PrivateKey)

NewTwentySixClient(acc, channel) == [account |-> acc, channel |-> channel]

----------------------------------------------------------------------------
\* The network and the remote index, as the client sees them

\* client.http.Do fails, or the body is not the JSON expected.
NetFailures == {[kind |-> "transport"], [kind |-> "unparsable"]}

\* All orders in which the server may list the messages of a set.
ListingsOf(S) ==
    {l \in [1..Cardinality(S) -> S] : \A i, j \in 1..Cardinality(S) : l[i] = l[j] => i = j}

IndexHashes == {m.ItemHash : m \in index}

\* Answers to GET /api/v0/messages.json?hashes=h
LookupResponses(h) ==
    LET M == {m \in index : m.ItemHash = h} IN
    NetFailures \cup
    {[kind |-> "json", total |-> Cardinality(M), messages |-> l] : l \in ListingsOf(M)}

\* A hash in another format than 64 hexadecimal characters (an IPFS content
\* identifier), and a STORE message an index may list for it.
ForeignHash == "QmForeign"

ForeignStore ==
    [ZeroMessage EXCEPT !.Type = "STORE", !.Chain = "ETH", !.ItemHash = ForeignHash,
                        !.ItemType = "inline",
                        !.ItemContent = [kind |-> "STORE", address |-> "", time |-> 0,
                                         ref |-> ForeignHash]]

\* Answers to GET /api/v0/messages.json?addresses=&channels=&msgTypes=STORE
\* (all the matches fit on one page of 50): the messages the index holds for
\* the sender and channel, in some order, or whatever else it answers.
VolumeListings(idx, client) ==
    LET M == {m \in idx : /\ m.Type = "STORE"
                            /\ m.Sender = client.account.Address
                            /\ m.Channel = client.channel} IN
    NetFailures \cup {[kind |-> "json", messages |-> l] : l \in ListingsOf(M)}
                \cup {[kind |-> "json", messages |-> <<ForeignStore>>]}

\* Answers to a POST of a message: the index takes the message or refuses it;
\* a request that failed did not reach it.
\* The body is a MessageResponse: message_status and publication_status.status.
PostResponses ==
    NetFailures \cup
    {[kind |-> "json", status |-> "pending", publication |-> "success"],
     [kind |-> "json", status |-> "rejected", publication |-> "success"],
     [kind |-> "json", status |-> "pending", publication |-> "error"]}

\* Answers to POST /api/v0/storage/add_file: StoreIPFSFileResponse carries the
\* hash the server computed over the uploaded file; an answer with an error
\* status (code 500) has a JSON body without those fields.
UploadResponses(fileHash) ==
    NetFailures \cup
    {[kind |-> "json", code |-> 200, status |-> st, publication |-> "success",
      hash |-> fileHash] : st \in {"pending", "rejected"}}
    \cup {[kind |-> "json", code |-> 200, status |-> "pending", publication |-> "success",
            hash |-> ForeignHash]}
    \cup {[kind |-> "json", code |-> 500, status |-> "", publication |-> "",
            hash |-> ""]}

\* The index refuses a message whose signature does not verify.
PostResponsesFor(msg) ==
    IF msg.Signature = "" THEN {r \in PostResponses : r.kind # "json" \/ r.status = "rejected"}
    ELSE PostResponses

UploadResponsesFor(msg, fileHash) ==
    IF msg.Signature = ""
    THEN {r \in UploadResponses(fileHash) :
            r.kind # "json" \/ r.status = "rejected" \/ r.code # 200}
    ELSE UploadResponses(fileHash)

\* The status an answer carries, or how the request failed.
Answer(resp) == IF resp.kind = "json" THEN resp.status ELSE resp.kind

Accepted(resp) ==
    resp.kind = "json" /\ resp.status # "rejected" /\ resp.publication = "success"

\* Answers of the scheduler to GET /api/v0/allocation/h: for a hash it has
\* scheduled the allocation (status 200); for another hash not-found (status
\* 404), with a body that is not JSON or with a JSON body that carries no
\* allocation.
SchedulerResponses(h) ==
    NetFailures \cup
    (IF h \in sched THEN {[kind |-> "json", code |-> 200, VmHash |-> h]}
     ELSE {[kind |-> "json", code |-> 404, VmHash |-> ""]})

----------------------------------------------------------------------------
\* Protocol client: client.go

\* GetMessageByHash taking every positive total for a found message.
GetMessageByHashAnyTotal(resp) ==
    IF resp.kind = "transport" THEN [err |-> "transport error", msg |-> ZeroMessage]
    ELSE IF resp.kind = "unparsable" THEN [err |-> "invalid json", msg |-> ZeroMessage]
    ELSE IF resp.total = 0 THEN [err |-> "message not found", msg |-> ZeroMessage]
    ELSE IF Len(resp.messages) = 0 THEN [err |-> "panic", msg |-> ZeroMessage]
    ELSE [err |-> "nil", msg |-> resp.messages[1]]

\* TwentySixClient.GetMessageByHash on the answer resp.  "panic" is the index
\* expression Messages[0] on an empty list.
GetMessageByHash(resp) ==
    IF resp.kind = "transport" THEN [err |-> "transport error", msg |-> ZeroMessage]
    ELSE IF resp.kind = "unparsable" THEN [err |-> "invalid json", msg |-> ZeroMessage]
    ELSE IF resp.total # 1 THEN [err |-> "message not found", msg |-> ZeroMessage]
    ELSE IF Len(resp.messages) = 0 THEN [err |-> "panic", msg |-> ZeroMessage]
    ELSE [err |-> "nil", msg |-> resp.messages[1]]

\* GetMessageByHash of package account (account/client.go:26-60): the same
\* test of the total, then the index expression Messages[1], the second
\* element of the list.
AccountGetMessageByHash(resp) ==
    IF resp.kind = "transport" THEN [err |-> "transport error", msg |-> ZeroMessage]
    ELSE IF resp.kind = "unparsable" THEN [err |-> "invalid json", msg |-> ZeroMessage]
    ELSE IF resp.total # 1 THEN [err |-> "message not found", msg |-> ZeroMessage]
    ELSE IF Len(resp.messages) < 2 THEN [err |-> "panic", msg |-> ZeroMessage]
    ELSE [err |-> "nil", msg |-> resp.messages[2]]

\* The scan of one page in GetVolumeByItemHash: the first listed message
\* whose payload refers to hash.
RECURSIVE FirstMatch(_, _, _)
FirstMatch(volumes, i, hash) ==
    IF i > Len(volumes) THEN ZeroMessage
    ELSE IF volumes[i].ItemContent.ref = hash THEN volumes[i]
    ELSE FirstMatch(volumes, i + 1, hash)

\* TwentySixClient.GetVolumeByItemHash when the first answer lists all the
\* messages (no item remains after page 1).
GetVolumeByItemHash(hash, listing) ==
    IF listing.kind = "transport" THEN [err |-> "transport error", msg |-> ZeroMessage]
    ELSE IF listing.kind = "unparsable" THEN [err |-> "invalid json", msg |-> ZeroMessage]
    ELSE LET found == FirstMatch(listing.messages, 1, hash) IN
         IF found = ZeroMessage THEN [err |-> "volume not found", msg |-> ZeroMessage]
         ELSE [err |-> "nil", msg |-> found]

\* TwentySixClient.GetMessages where the remaining count is always 0.
GetMessagesNoRemaining(resp) ==
    IF resp.kind = "transport"
    THEN [messages |-> <<>>, remainingItems |-> 0, err |-> "transport error"]
    ELSE IF resp.kind = "unparsable"
    THEN [messages |-> <<>>, remainingItems |-> 0, err |-> "invalid json"]
    ELSE [messages |-> resp.messages, remainingItems |-> 0, err |-> "nil"]

\* The width of the pagination fields and of the remaining count, uint64 in
\* the source, scaled down: values are 0..Word-1 and products wrap at Word.
WordBits == 8

Word == 2 ^ WordBits

\* The product of two unsigned words.
MulWord(a, b) == (a * b) % Word

\* TwentySixClient.GetMessages with the product of page and per-page count
\* computed without wrapping.
GetMessagesWideProduct(resp) ==
    IF resp.kind = "transport"
    THEN [messages |-> <<>>, remainingItems |-> 0, err |-> "transport error"]
    ELSE IF resp.kind = "unparsable"
    THEN [messages |-> <<>>, remainingItems |-> 0, err |-> "invalid json"]
    ELSE [messages |-> resp.messages,
          remainingItems |-> IF resp.page * resp.perPage > resp.total THEN 0
                             ELSE resp.total - resp.page * resp.perPage,
          err |-> "nil"]

\* TwentySixClient.GetMessages on the answer resp to the request of one page:
\* (messages, remainingItems, err), the remaining count computed from the
\* pagination fields of the answer.
GetMessages(resp) ==
    IF resp.kind = "transport"
    THEN [messages |-> <<>>, remainingItems |-> 0, err |-> "transport error"]
    ELSE IF resp.kind = "unparsable"
    THEN [messages |-> <<>>, remainingItems |-> 0, err |-> "invalid json"]
    ELSE [messages |-> resp.messages,
          remainingItems |-> IF MulWord(resp.page, resp.perPage) > resp.total THEN 0
                             ELSE resp.total - MulWord(resp.page, resp.perPage),
          err |-> "nil"]

\* The loop of TwentySixClient.GetVolumeByItemHash from page on, answers[p]
\* being the answer to the request of page p: the error, the message and the
\* pages requested.
RECURSIVE ScanPages(_, _, _)
ScanPages(hash, page, answers) ==
    LET r == GetMessages(answers[page])
        found == FirstMatch(r.messages, 1, hash)
    IN  IF r.err # "nil" THEN [err |-> r.err, msg |-> ZeroMessage, pages |-> <<page>>]
        ELSE IF found # ZeroMessage THEN [err |-> "nil", msg |-> found, pages |-> <<page>>]
        ELSE IF r.remainingItems > 0
        THEN LET rest == ScanPages(hash, page + 1, answers) IN
             [rest EXCEPT !.pages = <<page>> \o @]
        ELSE [err |-> "volume not found", msg |-> ZeroMessage, pages |-> <<page>>]

\* A ForgetMessage that broadcasts its payload under the type STORE.
ForgetMessageAsStore(client, hash, t, resp) ==
    [message |-> BuildMessage(client, "STORE", hash, t),
     err |-> IF resp.kind = "transport" THEN "transport error" ELSE "nil"]

\* TwentySixClient.ForgetMessage: the FORGET message it POSTs and the error it
\* returns; the body of the answer is parsed and dropped.
ForgetMessage(client, hash, t, resp) ==
    [message |-> BuildMessage(client, "FORGET", hash, t),
     err |-> IF resp.kind = "transport" THEN "transport error" ELSE "nil"]

\* TwentySixClient.GetInstanceState
GetInstanceState(resp) ==
    IF resp.kind = "transport" THEN [err |-> "transport error", VmHash |-> ""]
    ELSE IF resp.kind = "unparsable" THEN [err |-> "invalid json", VmHash |-> ""]
    ELSE [err |-> "nil", VmHash |-> resp.VmHash]

\* TwentySixClient.StoreFile of the file at filePath, whose bytes are file: the
\* STORE message it builds, the requests it makes and (createdMessage,
\* storeFileResponse.Hash, err).
StoreFile(client, file, t, upload, listing) ==
    LET built == BuildMessage(client, "STORE", "sha(" \o file \o ")", t)
        post == <<"POST /api/v0/storage/add_file">>
        created == GetVolumeByItemHash(upload.hash, listing)
    IN  IF upload.kind = "transport"
        THEN [err |-> "transport error", message |-> ZeroMessage, hash |-> "",
              built |-> built, http |-> post]
        ELSE IF upload.kind = "unparsable"
        THEN [err |-> "invalid json", message |-> ZeroMessage, hash |-> "",
              built |-> built, http |-> post]
        ELSE IF created.err # "nil"
        THEN [err |-> created.err, message |-> ZeroMessage, hash |-> "",
              built |-> built, http |-> post \o <<"GET /api/v0/messages.json">>]
        ELSE [err |-> "nil", message |-> created.msg, hash |-> upload.hash,
              built |-> built, http |-> post \o <<"GET /api/v0/messages.json">>]

----------------------------------------------------------------------------
\* The local file system

DataPath == "/data"

FolderContents == {"c1", "c2"}

\* What is at a path: the content of the directory, or "none".
FolderAt(path) == IF path = DataPath THEN folder ELSE "none"

\* folderExists
folderExists(dir) == dir # "none"

\* hashdir.Make(path, "sha256") of a directory that exists
hashdirMake(dir) == "dirsha(" \o dir \o ")"

\* mksquashfs: the image of a directory
Squashfs(dir) == "sqfs(" \o dir \o ")"

\* mksquashfs source dest run on what is at dest: a new image, or the source
\* appended to the image that is there.
Mksquashfs(dir, file) ==
    IF file = "none" THEN Squashfs(dir) ELSE file \o "+" \o Squashfs(dir)

\* FolderSize of the image
FolderSize(file) == IF file = Squashfs("c1") THEN 4096 ELSE 8192

----------------------------------------------------------------------------
\* Volume resource: volume.go

VolumeArgs(account, channel, path) ==
    [Account |-> account, Channel |-> channel, FolderPath |-> path, Size |-> 0]

\* state := TwentySixVolumeState{TwentySixVolumeArgs: input}
VolumeStateOf(input) ==
    [Account |-> input.Account, Channel |-> input.Channel,
     FolderPath |-> input.FolderPath, Size |-> input.Size,
     FolderHash |-> "", FileHash |-> "", MessageHash |-> ""]

ZeroVolumeState == VolumeStateOf(VolumeArgs(ZeroAccount, "", ""))

VolumeFailure(e, http) == [id |-> "", state |-> ZeroVolumeState, err |-> e, http |-> http]

\* A Create that hands back the state computed so far when StoreFile fails.
VolumeCreatePartial(name, input, preview, dir, packed, t, upload, listing) ==
    LET state == VolumeStateOf(input)
        client == NewTwentySixClient(input.Account, state.Channel)
        stored == StoreFile(client, Squashfs(dir), t, upload, listing)
    IN  IF preview THEN [id |-> name, state |-> state, err |-> "nil", http |-> <<>>]
        ELSE IF state.FolderPath = "" /\ ~folderExists(dir)
        THEN VolumeFailure("folder dosn't exists", <<>>)
        ELSE IF ~folderExists(dir) THEN VolumeFailure("hashdir error", <<>>)
        ELSE IF ~packed THEN VolumeFailure("mksquashfs error", <<>>)
        ELSE IF stored.err # "nil"
        THEN [id |-> "", err |-> stored.err, http |-> stored.http,
              state |-> [state EXCEPT !.Size = FolderSize(Squashfs(dir)),
                                      !.FolderHash = hashdirMake(dir)]]
        ELSE [id |-> name, err |-> "nil", http |-> stored.http,
              state |-> [state EXCEPT !.Size = FolderSize(Squashfs(dir)),
                                      !.FolderHash = hashdirMake(dir),
                                      !.FileHash = stored.hash,
                                      !.MessageHash = stored.message.ItemHash]]

\* A Create that records the hash of the uploaded image as the folder hash.
VolumeCreateFileHash(name, input, preview, dir, packed, t, upload, listing) ==
    LET state == VolumeStateOf(input)
        client == NewTwentySixClient(input.Account, state.Channel)
        stored == StoreFile(client, Squashfs(dir), t, upload, listing)
    IN  IF preview THEN [id |-> name, state |-> state, err |-> "nil", http |-> <<>>]
        ELSE IF state.FolderPath = "" /\ ~folderExists(dir)
        THEN VolumeFailure("folder dosn't exists", <<>>)
        ELSE IF ~folderExists(dir) THEN VolumeFailure("hashdir error", <<>>)
        ELSE IF ~packed THEN VolumeFailure("mksquashfs error", <<>>)
        ELSE IF stored.err # "nil" THEN VolumeFailure(stored.err, stored.http)
        ELSE [id |-> name, err |-> "nil", http |-> stored.http,
              state |-> [state EXCEPT !.Size = FolderSize(Squashfs(dir)),
                                      !.FolderHash = stored.hash,
                                      !.FileHash = stored.hash,
                                      !.MessageHash = stored.message.ItemHash]]

\* TwentySixVolume.Create.  dir is what is at input.FolderPath, packed whether
\* mksquashfs succeeds, t the clock, upload and listing the answers of the index.
TwentySixVolumeCreate(name, input, preview, dir, packed, t, upload, listing) ==
    LET state == VolumeStateOf(input)
        client == NewTwentySixClient(input.Account, state.Channel)
        stored == StoreFile(client, Squashfs(dir), t, upload, listing)
    IN  IF preview THEN [id |-> name, state |-> state, err |-> "nil", http |-> <<>>]
        ELSE IF state.FolderPath = "" /\ ~folderExists(dir)
        THEN VolumeFailure("folder dosn't exists", <<>>)
        ELSE IF ~folderExists(dir) THEN VolumeFailure("hashdir error", <<>>)
        ELSE IF ~packed THEN VolumeFailure("mksquashfs error", <<>>)
        ELSE IF stored.err # "nil" THEN VolumeFailure(stored.err, stored.http)
        ELSE [id |-> name, err |-> "nil", http |-> stored.http,
              state |-> [state EXCEPT !.Size = FolderSize(Squashfs(dir)),
                                      !.FolderHash = hashdirMake(dir),
                                      !.FileHash = stored.hash,
                                      !.MessageHash = stored.message.ItemHash]]

\* A Diff that reports no changes when either condition holds.
VolumeDiffEither(olds, news, dir, lookup) ==
    LET found == GetMessageByHash(lookup)
        get == <<"GET /api/v0/messages.json">>
    IN  IF ~folderExists(dir)
        THEN [err |-> "hashdir error", HasChanges |-> FALSE,
              DeleteBeforeReplace |-> FALSE, http |-> <<>>]
        ELSE IF olds.FolderHash = hashdirMake(dir) \/ found.err = "nil"
        THEN [err |-> "nil", HasChanges |-> FALSE, DeleteBeforeReplace |-> FALSE, http |-> get]
        ELSE [err |-> "nil", HasChanges |-> TRUE, DeleteBeforeReplace |-> found.err # "nil",
              http |-> get]

\* A Diff that asks for delete-before-replace whenever it reports changes.
VolumeDiffReplaceOnChange(olds, news, dir, lookup) ==
    LET found == GetMessageByHash(lookup)
        get == <<"GET /api/v0/messages.json">>
    IN  IF ~folderExists(dir)
        THEN [err |-> "hashdir error", HasChanges |-> FALSE,
              DeleteBeforeReplace |-> FALSE, http |-> <<>>]
        ELSE IF olds.FolderHash = hashdirMake(dir) /\ found.err = "nil"
        THEN [err |-> "nil", HasChanges |-> FALSE, DeleteBeforeReplace |-> FALSE, http |-> get]
        ELSE [err |-> "nil", HasChanges |-> TRUE, DeleteBeforeReplace |-> TRUE, http |-> get]

\* A Diff that returns the error of a lookup that failed in transport or in
\* parsing.
VolumeDiffSurfacesLookup(olds, news, dir, lookup) ==
    LET found == GetMessageByHash(lookup)
        get == <<"GET /api/v0/messages.json">>
    IN  IF ~folderExists(dir)
        THEN [err |-> "hashdir error", HasChanges |-> FALSE,
              DeleteBeforeReplace |-> FALSE, http |-> <<>>]
        ELSE IF found.err \notin {"nil", "message not found"}
        THEN [err |-> found.err, HasChanges |-> FALSE, DeleteBeforeReplace |-> FALSE,
              http |-> get]
        ELSE IF olds.FolderHash = hashdirMake(dir) /\ found.err = "nil"
        THEN [err |-> "nil", HasChanges |-> FALSE, DeleteBeforeReplace |-> FALSE, http |-> get]
        ELSE [err |-> "nil", HasChanges |-> TRUE, DeleteBeforeReplace |-> found.err # "nil",
              http |-> get]

\* TwentySixVolume.Diff.  On a hashing error it returns the zero DiffResponse.
TwentySixVolumeDiff(olds, news, dir, lookup) ==
    LET found == GetMessageByHash(lookup) IN
    IF ~folderExists(dir)
    THEN [err |-> "hashdir error", HasChanges |-> FALSE,
          DeleteBeforeReplace |-> FALSE, http |-> <<>>]
    ELSE IF found.err = "panic"
    THEN [err |-> "panic", HasChanges |-> FALSE, DeleteBeforeReplace |-> FALSE,
          http |-> <<"GET /api/v0/messages.json">>]
    ELSE IF olds.FolderHash = hashdirMake(dir) /\ found.err = "nil"
    THEN [err |-> "nil", HasChanges |-> FALSE, DeleteBeforeReplace |-> FALSE,
          http |-> <<"GET /api/v0/messages.json">>]
    ELSE [err |-> "nil", HasChanges |-> TRUE, DeleteBeforeReplace |-> found.err # "nil",
          http |-> <<"GET /api/v0/messages.json">>]

\* A Delete that broadcasts the FORGET although the message was not found.
DeleteAlwaysForget(olds, t, lookup, forget) ==
    LET client == NewTwentySixClient(olds.Account, olds.Channel)
        found == GetMessageByHash(lookup)
        forgot == ForgetMessage(client, olds.MessageHash, t, forget)
        get == <<"GET /api/v0/messages.json">>
    IN  IF found.err \notin {"nil", "message not found"}
        THEN [err |-> found.err, http |-> get, posted |-> {}]
        ELSE [err |-> forgot.err, http |-> get \o <<"POST /api/v0/messages">>,
              posted |-> {forgot.message}]

\* A Delete that swallows every error of the existence check.
DeleteSwallowErrors(olds, t, lookup, forget) ==
    LET client == NewTwentySixClient(olds.Account, olds.Channel)
        found == GetMessageByHash(lookup)
        forgot == ForgetMessage(client, found.msg.ItemHash, t, forget)
        get == <<"GET /api/v0/messages.json">>
    IN  IF found.err # "nil"
        THEN [err |-> "nil", http |-> get, posted |-> {}]
        ELSE [err |-> forgot.err, http |-> get \o <<"POST /api/v0/messages">>,
              posted |-> {forgot.message}]

\* A Delete that returns the "message not found" error.
DeleteNotFoundFails(olds, t, lookup, forget) ==
    LET client == NewTwentySixClient(olds.Account, olds.Channel)
        found == GetMessageByHash(lookup)
        forgot == ForgetMessage(client, found.msg.ItemHash, t, forget)
        get == <<"GET /api/v0/messages.json">>
    IN  IF found.err # "nil"
        THEN [err |-> found.err, http |-> get, posted |-> {}]
        ELSE [err |-> forgot.err, http |-> get \o <<"POST /api/v0/messages">>,
              posted |-> {forgot.message}]

\* A Delete without the existence check.
DeleteUnchecked(olds, t, lookup, forget) ==
    LET client == NewTwentySixClient(olds.Account, olds.Channel)
        forgot == ForgetMessage(client, olds.MessageHash, t, forget)
    IN  [err |-> forgot.err, http |-> <<"POST /api/v0/messages">>,
         posted |-> {forgot.message}]

\* A Delete whose existence check is requested again after a failed request.
DeleteRetriesLookup(olds, t, lookup, forget) ==
    LET client == NewTwentySixClient(olds.Account, olds.Channel)
        found == GetMessageByHash(lookup)
        forgot == ForgetMessage(client, found.msg.ItemHash, t, forget)
        get == <<"GET /api/v0/messages.json">>
    IN  IF found.err # "nil"
        THEN IF found.err = "message not found"
             THEN [err |-> "nil", http |-> get, posted |-> {}]
             ELSE [err |-> found.err, http |-> get \o get, posted |-> {}]
        ELSE [err |-> forgot.err, http |-> get \o <<"POST /api/v0/messages">>,
              posted |-> {forgot.message}]

\* Delete of TwentySixVolume and of TwentySixFunction (the same code): the error
\* returned, the requests made and the FORGET messages POSTed.
Delete(olds, t, lookup, forget) ==
    LET client == NewTwentySixClient(olds.Account, olds.Channel)
        found == GetMessageByHash(lookup)
        forgot == ForgetMessage(client, found.msg.ItemHash, t, forget)
        get == <<"GET /api/v0/messages.json">>
    IN  IF found.err # "nil"
        THEN IF found.err = "message not found"
             THEN [err |-> "nil", http |-> get, posted |-> {}]
             ELSE [err |-> found.err, http |-> get, posted |-> {}]
        ELSE [err |-> forgot.err, http |-> get \o <<"POST /api/v0/messages">>,
              posted |-> {forgot.message}]

----------------------------------------------------------------------------
\* Function resource: function.go

\* TwentySixFunctionArgs: Spec stands for the ten fields AllowAmend, Metadata,
\* AuthorizedKeys, Variables, Environment, Resources, Payment, Requirements,
\* Volumes and Replaces taken together.
FunctionArgs(account, channel, spec) ==
    [Account |-> account, Channel |-> channel, Spec |-> spec]

\* state := TwentySixFunctionState{TwentySixFunctionArgs: input}
FunctionStateOf(input) ==
    [Account |-> input.Account, Channel |-> input.Channel, Spec |-> input.Spec,
     SchedulerAllocation |-> [VmHash |-> ""], MessageHash |-> ""]

ZeroFunctionState == FunctionStateOf(FunctionArgs(ZeroAccount, "", ""))

FunctionFailure(e, http) ==
    [id |-> "", state |-> ZeroFunctionState, err |-> e, http |-> http, polling |-> FALSE]

\* TwentySixClient.CreateFunction: the PROGRAM message built and POSTed, the
\* parsed MessageResponse and the error.
CreateFunction(client, function, t, resp) ==
    [message |-> BuildMessage(client, "PROGRAM", function.Spec, t),
     response |-> IF resp.kind = "json"
                  THEN [Status |-> resp.status, PublicationStatus |-> resp.publication]
                  ELSE [Status |-> "", PublicationStatus |-> ""],
     err |-> IF resp.kind = "transport" THEN "transport error"
             ELSE IF resp.kind = "unparsable" THEN "invalid json" ELSE "nil"]

\* TwentySixClient.CreateInstance: the INSTANCE message built and POSTed, the
\* parsed MessageResponse and the error.
CreateInstance(client, instance, t, resp) ==
    [message |-> BuildMessage(client, "INSTANCE", instance.Spec, t),
     response |-> IF resp.kind = "json"
                  THEN [Status |-> resp.status, PublicationStatus |-> resp.publication]
                  ELSE [Status |-> "", PublicationStatus |-> ""],
     err |-> IF resp.kind = "transport" THEN "transport error"
             ELSE IF resp.kind = "unparsable" THEN "invalid json" ELSE "nil"]

\* TwentySixFunction.Create up to its polling loop (function.go:119-143): it
\* either returns (polling = FALSE) or enters the loop with state.
FunctionCreateBroadcast(name, input, preview, t, resp) ==
    LET state == FunctionStateOf(input)
        client == NewTwentySixClient(input.Account, state.Channel)
        created == CreateFunction(client, input, t, resp)
        post == <<"POST /api/v0/messages">>
    IN  IF created.err # "nil" THEN FunctionFailure(created.err, post)
        ELSE IF created.response.Status = "rejected"
        THEN FunctionFailure("an error occured on function message", post)
        ELSE IF created.response.PublicationStatus # "success"
        THEN FunctionFailure("an error occured on function message", post)
        ELSE [id |-> name, err |-> "nil", http |-> post, polling |-> TRUE,
              state |-> [state EXCEPT !.MessageHash = created.message.ItemHash]]

\* A loop that gives up as soon as the timeout is reached.
PollTurnAtTimeout(elapsed, instanceState) ==
    IF instanceState.err # "nil"
    THEN IF elapsed >= timeout THEN "timeout" ELSE "continue"
    ELSE "available"

\* One turn of the loop of TwentySixFunction.Create (function.go:144-159),
\* elapsed being now - startAt when the failed query is handled.
PollTurn(elapsed, instanceState) ==
    IF instanceState.err # "nil"
    THEN IF elapsed > timeout THEN "timeout" ELSE "continue"
    ELSE "available"

\* A loop that hands back the state with the message hash when it times out.
PollResultTimeoutKeepsState(name, state, elapsed, instanceState) ==
    LET turn == PollTurn(elapsed, instanceState) IN
    CASE turn = "continue" -> [turn |-> turn, id |-> "", state |-> state, err |-> "nil"]
      [] turn = "timeout" -> [turn |-> turn, id |-> "", state |-> state,
                              err |-> "timeout waiting for instance"]
      [] turn = "available" ->
            [turn |-> turn, id |-> name, err |-> "nil",
             state |-> [state EXCEPT !.SchedulerAllocation = [VmHash |-> instanceState.VmHash]]]

\* A loop that returns without recording the allocation.
PollResultNoAllocation(name, state, elapsed, instanceState) ==
    LET turn == PollTurn(elapsed, instanceState) IN
    CASE turn = "continue" -> [turn |-> turn, id |-> "", state |-> state, err |-> "nil"]
      [] turn = "timeout" -> [turn |-> turn, id |-> "", state |-> ZeroFunctionState,
                              err |-> "timeout waiting for instance"]
      [] turn = "available" -> [turn |-> turn, id |-> name, err |-> "nil", state |-> state]

\* What one turn of the loop leaves: the loop goes on with state, or Create
\* returns (id, state, err) (function.go:147-161).
PollResult(name, state, elapsed, instanceState) ==
    LET turn == PollTurn(elapsed, instanceState) IN
    CASE turn = "continue" -> [turn |-> turn, id |-> "", state |-> state, err |-> "nil"]
      [] turn = "timeout" -> [turn |-> turn, id |-> "", state |-> ZeroFunctionState,
                              err |-> "timeout waiting for instance"]
      [] turn = "available" ->
            [turn |-> turn, id |-> name, err |-> "nil",
             state |-> [state EXCEPT !.SchedulerAllocation = [VmHash |-> instanceState.VmHash]]]

\* A Diff that broadcasts the function again when it finds changes.
FunctionDiffReposts(olds, news, resp) ==
    LET previous == FunctionArgs(ZeroAccount, "", olds.Spec)
        instanceStillExists == GetInstanceState(resp).err # "nil"
        get == <<"GET /api/v0/allocation">>
    IN  IF previous = news /\ instanceStillExists
        THEN [err |-> "nil", HasChanges |-> FALSE, DeleteBeforeReplace |-> FALSE, http |-> get]
        ELSE [err |-> "nil", HasChanges |-> TRUE, DeleteBeforeReplace |-> TRUE,
              http |-> get \o <<"POST /api/v0/messages">>]

\* TwentySixFunction.Diff
TwentySixFunctionDiff(olds, news, resp) ==
    LET previous == FunctionArgs(ZeroAccount, "", olds.Spec)
        instanceStillExists == GetInstanceState(resp).err # "nil"
        get == <<"GET /api/v0/allocation">>
    IN  IF previous = news /\ instanceStillExists
        THEN [err |-> "nil", HasChanges |-> FALSE, DeleteBeforeReplace |-> FALSE, http |-> get]
        ELSE [err |-> "nil", HasChanges |-> TRUE, DeleteBeforeReplace |-> TRUE, http |-> get]

----------------------------------------------------------------------------
\* The lifecycle host and the handlers it calls.  The host holds the state of
\* the last account, volume and function it created.  A message the index
\* accepts is processed before the host's next call; inside StoreFile the
\* 5-second sleep may end before the new message is listed (visible = FALSE).
\* TwentySixAccount.Create reads and writes nothing but its arguments, so the
\* host's calls of it are taken before the first message is built.

Name == "urn:name"

Channels == {"", "TEST"}

FunctionSpecs == {"f1", "f2"}

VolumeInputs == {VolumeArgs(acct, "TEST", path) : path \in {"", DataPath}}

\* The arguments of the function the host creates, and the new arguments it
\* may ask Diff about.
FunctionInputs == {FunctionArgs(acct, "TEST", "f1")}

FunctionNews ==
    {FunctionArgs(a, ch, sp) : a \in {acct, ZeroAccount}, ch \in Channels, sp \in FunctionSpecs}

\* cancelled is the number of turns made when the caller cancelled ctx, -1
\* while it has not.
NoPoll ==
    [preview |-> FALSE, state |-> ZeroFunctionState, elapsed |-> 0, polls |-> 0,
     http |-> <<>>, posted |-> {}, cancelled |-> -1]

Init ==
    /\ now = 0
    /\ folder = "c1"
    /\ index = {}
    /\ sched = {}
    /\ acct = ZeroAccount
    /\ vols = {}
    /\ funs = {}
    /\ made = [input |-> VolumeArgs(ZeroAccount, "", ""), dir |-> "none"]
    /\ forgets = {}
    /\ pc = "idle"
    /\ poll = NoPoll
    /\ ret = [op |-> "none"]
    /\ tmp = [second \in 0..MaxNow |-> "none"]
    /\ proc = [p \in Procs |-> NotStarted]

\* What the index does with msg when it answers resp to the request carrying
\* it: a FORGET it accepts removes its target, another message it accepts
\* becomes resolvable.
Process(idx, msg, resp) ==
    IF ~Accepted(resp) THEN idx
    ELSE IF msg.Type = "FORGET" THEN {x \in idx : x.ItemHash # msg.ItemContent.ref}
    ELSE idx \cup {msg}

\* A call of TwentySixAccount.Create on one of inputs, at any time.
AccountCreateAt(inputs) ==
    /\ pc = "idle"
    /\ \E input \in inputs, preview \in BOOLEAN :
         LET r == AccountCreate(Name, input, preview) IN
         /\ ret' = [op |-> "AccountCreate", input |-> input,
                    preview |-> preview, id |-> r.id, state |-> r.state,
                    err |-> r.err, http |-> <<>>, posted |-> {}, broadcast |-> "none",
                    at |-> now, earlier |-> acct # ZeroAccount]
         /\ acct' = IF r.err = "nil" /\ ~preview THEN r.state ELSE acct
    /\ UNCHANGED <<now, folder, index, sched, vols, funs, pc, poll, made, forgets>>
    /\ UNCHANGED <<tmp, proc>>

\* The host creates the account before the resources that use it.
AccountCreateOn(inputs) ==
    /\ now = 0
    /\ AccountCreateAt(inputs)

AccountCreateCall == AccountCreateOn(AccountInputs)

VolumeCreateCall ==
    /\ pc = "idle"
    /\ \E input \in VolumeInputs, preview \in BOOLEAN, packed \in BOOLEAN, visible \in BOOLEAN :
         LET dir == FolderAt(input.FolderPath)
             client == NewTwentySixClient(input.Account, input.Channel)
             probe == TwentySixVolumeCreate(Name, input, preview, dir, packed, now,
                                            [kind |-> "transport"], [kind |-> "transport"])
             built == StoreFile(client, Squashfs(dir), now,
                                [kind |-> "transport"], [kind |-> "transport"]).built
         IN  IF probe.http = <<>>
             THEN /\ ret' = [op |-> "VolumeCreate", input |-> input,
                             preview |-> preview, id |-> probe.id, state |-> probe.state,
                             err |-> probe.err, http |-> probe.http, posted |-> {},
                             broadcast |-> "none", indexed |-> FALSE]
                  /\ UNCHANGED <<now, index, vols, made>>
             ELSE \E upload \in UploadResponsesFor(built, built.ItemContent.ref) :
                    /\ now < MaxNow
                    /\ \E listing \in VolumeListings(
                                     IF visible THEN Process(index, built, upload) ELSE index,
                                     client) :
                         LET r == TwentySixVolumeCreate(Name, input, preview, dir, packed,
                                                        now, upload, listing) IN
                         /\ ret' = [op |-> "VolumeCreate", input |-> input,
                                    preview |-> preview, id |-> r.id, state |-> r.state,
                                    err |-> r.err, http |-> r.http, posted |-> {built},
                                    broadcast |-> Answer(upload),
                                    code |-> IF upload.kind = "json" THEN upload.code
                                             ELSE 0,
                                    indexed |-> built \in Process(index, built, upload)]
                         /\ now' = now + 1
                         /\ index' = Process(index, built, upload)
                         /\ vols' = IF r.err = "nil" THEN {r.state} ELSE vols
                         /\ made' = IF r.err = "nil" THEN [input |-> input, dir |-> dir]
                                     ELSE made
    /\ UNCHANGED <<folder, sched, acct, funs, pc, poll, forgets>>
    /\ UNCHANGED <<tmp, proc>>

VolumeDiffCall ==
    /\ pc = "idle"
    /\ \E olds \in vols, news \in VolumeInputs :
         \E lookup \in LookupResponses(olds.MessageHash) :
           LET r == TwentySixVolumeDiff(olds, news, FolderAt(news.FolderPath), lookup) IN
           ret' = [op |-> "VolumeDiff", olds |-> olds, news |-> news,
                   dir |-> FolderAt(news.FolderPath),
                   resolved |-> GetMessageByHash(lookup).err,
                   err |-> r.err, HasChanges |-> r.HasChanges,
                   DeleteBeforeReplace |-> r.DeleteBeforeReplace, http |-> r.http,
                   posted |-> {}]
    /\ UNCHANGED <<now, folder, index, sched, acct, vols, funs, pc, poll, made, forgets>>
    /\ UNCHANGED <<tmp, proc>>

\* Delete of the volume (kind = "Volume") or of the function the host holds.
DeleteCall(kind, olds) ==
    /\ pc = "idle"
    /\ \E lookup \in LookupResponses(olds.MessageHash) :
         LET probe == Delete(olds, now, lookup, [kind |-> "transport"]) IN
         \E forget \in IF probe.posted = {} THEN {[kind |-> "transport"]}
                       ELSE UNION {PostResponsesFor(m) : m \in probe.posted} :
           LET r == Delete(olds, now, lookup, forget) IN
           /\ r.posted # {} => now < MaxNow
           /\ ret' = [op |-> kind \o "Delete", olds |-> olds,
                      onIndex |-> olds.MessageHash \in IndexHashes,
                      resolved |-> GetMessageByHash(lookup).err,
                      forget |-> IF r.posted = {} THEN "none"
                                 ELSE IF Accepted(forget) THEN "accepted"
                                 ELSE IF forget.kind = "json" THEN "refused"
                                 ELSE forget.kind,
                      err |-> r.err, http |-> r.http, posted |-> r.posted]
           /\ index' = IF r.posted = {} THEN index
                       ELSE Process(index, CHOOSE m \in r.posted : TRUE, forget)
           /\ now' = IF r.posted = {} THEN now ELSE now + 1
           /\ forgets' = forgets \cup {[hash |-> m.ItemContent.ref, time |-> m.Time,
                                         taken |-> Accepted(forget)] : m \in r.posted}
    /\ UNCHANGED <<folder, sched, acct, vols, funs, pc, poll, made>>
    /\ UNCHANGED <<tmp, proc>>

VolumeDeleteCall == \E olds \in vols : DeleteCall("Volume", olds)

FunctionDeleteCall == \E olds \in funs : DeleteCall("Function", olds)

FunctionCreateCall ==
    /\ pc = "idle"
    /\ now < MaxNow
    /\ \E input \in FunctionInputs, preview \in BOOLEAN :
         LET built == BuildMessage(NewTwentySixClient(input.Account, input.Channel),
                                   "PROGRAM", input.Spec, now) IN
         \E resp \in PostResponsesFor(built) :
           LET r == FunctionCreateBroadcast(Name, input, preview, now, resp) IN
           /\ now' = now + 1
           /\ index' = Process(index, built, resp)
           /\ IF r.polling
              THEN /\ pc' = "polling"
                   /\ poll' = [preview |-> preview, state |-> r.state, elapsed |-> 0,
                               polls |-> 0, http |-> r.http, posted |-> {built},
                               cancelled |-> -1]
                   /\ ret' = [op |-> "FunctionCreate", input |-> input,
                              preview |-> preview, running |-> TRUE, http |-> r.http,
                              posted |-> {built}, broadcast |-> Answer(resp)]
              ELSE /\ ret' = [op |-> "FunctionCreate", input |-> input,
                              preview |-> preview, running |-> FALSE, id |-> r.id,
                              state |-> r.state, err |-> r.err, http |-> r.http,
                              posted |-> {built}, broadcast |-> Answer(resp)]
                   /\ UNCHANGED <<pc, poll>>
    /\ UNCHANGED <<folder, sched, acct, vols, funs, made, forgets>>
    /\ UNCHANGED <<tmp, proc>>

\* How long one turn of the loop takes: the sleep of Interval seconds plus the
\* scheduler query, which may be fast or take as long as the whole timeout.
TurnDurations == {Interval, timeout}

FunctionCreatePoll ==
    /\ pc = "polling"
    /\ poll.polls < MaxPolls
    /\ \E d \in TurnDurations, resp \in SchedulerResponses(poll.state.MessageHash) :
         LET instanceState == GetInstanceState(resp)
             elapsed == poll.elapsed + d
             r == PollResult(Name, poll.state, elapsed, instanceState)
             http == poll.http \o <<"GET /api/v0/allocation">>
         IN  IF r.turn = "continue"
             THEN /\ poll' = [poll EXCEPT !.elapsed = elapsed, !.polls = @ + 1,
                                          !.http = http]
                  /\ UNCHANGED <<pc, ret, funs>>
             ELSE /\ ret' = [op |-> "FunctionCreate", input |-> ret.input,
                             preview |-> poll.preview, running |-> FALSE, http |-> http,
                             posted |-> poll.posted, broadcast |-> ret.broadcast,
                             elapsed |-> elapsed, failed |-> poll.polls,
                             answer |-> resp, id |-> r.id, state |-> r.state,
                             err |-> r.err, cancelled |-> poll.cancelled]
                  /\ funs' = IF r.err = "nil" THEN {r.state} ELSE funs
                  /\ pc' = "idle"
                  /\ poll' = NoPoll
    /\ UNCHANGED <<now, folder, index, sched, acct, vols, made, forgets>>
    /\ UNCHANGED <<tmp, proc>>

\* The caller cancels the context it passed to TwentySixFunction.Create, or
\* the deadline of that context passes.  Create never reads ctx, so the loop
\* is left as it is.
Cancel ==
    /\ pc = "polling"
    /\ poll.cancelled = -1
    /\ poll' = [poll EXCEPT !.cancelled = poll.polls]
    /\ UNCHANGED <<now, folder, index, sched, acct, vols, funs, pc, ret, made, forgets>>
    /\ UNCHANGED <<tmp, proc>>

FunctionDiffCall ==
    /\ pc = "idle"
    /\ \E olds \in funs, news \in FunctionNews :
         \E resp \in SchedulerResponses(olds.SchedulerAllocation.VmHash) :
           LET r == TwentySixFunctionDiff(olds, news, resp) IN
           ret' = [op |-> "FunctionDiff", olds |-> olds, news |-> news,
                   live |-> GetInstanceState(resp).err, answer |-> resp,
                   err |-> r.err, HasChanges |-> r.HasChanges,
                   DeleteBeforeReplace |-> r.DeleteBeforeReplace, http |-> r.http,
                   posted |-> {}]
    /\ UNCHANGED <<now, folder, index, sched, acct, vols, funs, pc, poll, made, forgets>>
    /\ UNCHANGED <<tmp, proc>>

----------------------------------------------------------------------------
\* Calls of single functions of the client, on arguments and answers drawn
\* from bounded sets, each made on the state after construction.  They leave
\* everything but ret unchanged.

DerivedAccount == AccountCreate(Name, AccountArgs("0xk1", "", ""), FALSE).state

\* Messages as they are when SignMessage is called.
SignInputs ==
    {[BuildMessage(NewTwentySixClient(a, "TEST"), type, "f1", t) EXCEPT !.Signature = ""] :
        a \in {DerivedAccount, ZeroAccount}, type \in {"STORE", "PROGRAM", "FORGET"},
        t \in 0..1}

\* The longest message list of an answer.
MaxListed == 2

\* Messages an index may list.
ListedMessages ==
    {SignMessage(m, "0xk1") : m \in {i \in SignInputs : i.Sender # "" /\ i.Time = 0
                                                      /\ i.Type \in {"STORE", "PROGRAM"}}}

SeqsUpTo(S, n) == UNION {[1..k -> S] : k \in 0..n}

\* Every answer to GET /api/v0/messages.json?hashes=h: a failure, or a JSON
\* body with any total and any message list.
AnyLookupResponses ==
    NetFailures \cup
    {[kind |-> "json", total |-> t, messages |-> l] :
        t \in 0..(MaxListed + 1), l \in SeqsUpTo(ListedMessages, MaxListed)}

GetMessageByHashCall ==
    /\ pc = "idle"
    /\ ret.op = "none"
    /\ \E pkg \in {"basics", "account"}, resp \in AnyLookupResponses :
         LET r == IF pkg = "basics" THEN GetMessageByHash(resp)
                  ELSE AccountGetMessageByHash(resp) IN
         ret' = [op |-> "GetMessageByHash", pkg |-> pkg, resp |-> resp,
                 err |-> r.err, message |-> r.msg]
    /\ UNCHANGED <<now, folder, index, sched, acct, vols, funs, pc, poll, made, forgets>>
    /\ UNCHANGED <<tmp, proc>>

\* The number of messages on a page (GetVolumeByItemHash asks for 50) and the
\* most STORE messages the index holds for the account and channel.
PageSize == 2

MaxStored == 4

\* STORE messages of the account: two for the file "c1", one for "c2".
StoredVolumes ==
    {BuildMessage(NewTwentySixClient(DerivedAccount, "TEST"), "STORE", "sha(c1)", t) :
        t \in 0..1}
    \cup {BuildMessage(NewTwentySixClient(DerivedAccount, "TEST"), "STORE", "sha(c2)", 0)}

\* The answer of the index holding the list stored to the request of a page.
PageOf(stored, size, page) ==
    LET last == IF page * size < Len(stored) THEN page * size ELSE Len(stored) IN
    [kind |-> "json", messages |-> SubSeq(stored, (page - 1) * size + 1, last),
     page |-> page, perPage |-> size, total |-> Len(stored)]

GetVolumeByItemHashCall ==
    /\ pc = "idle"
    /\ ret.op = "none"
    /\ \E stored \in SeqsUpTo(StoredVolumes, MaxStored), hash \in {"sha(c1)", "sha(c3)"},
          failAt \in 0..2, failure \in NetFailures :
         LET answers == [p \in 1..(MaxStored + 1) |->
                            IF p = failAt THEN failure
                            ELSE PageOf(stored, PageSize, p)]
             r == ScanPages(hash, 1, answers)
         IN  ret' = [op |-> "GetVolumeByItemHash", hash |-> hash, stored |-> stored,
                     failAt |-> failAt, err |-> r.err, message |-> r.msg,
                     pages |-> r.pages]
    /\ UNCHANGED <<now, folder, index, sched, acct, vols, funs, pc, poll, made, forgets>>
    /\ UNCHANGED <<tmp, proc>>

\* Every combination of a private key, a mnemonic and a derivation path,
\* each absent, valid or invalid.
AnyAccountInputs ==
    {AccountArgs(pk, mn, dp) : pk \in {"", "0xk1", "zz"}, mn \in {"", "mn1", "bad"},
                               dp \in {"", "junk"}}

AccountCreateAnyCall ==
    /\ ret.op = "none"
    /\ AccountCreateOn(AnyAccountInputs)

\* Account arguments that name the same key in several ways: the default
\* derivation path left out or written out, another path, and the private key
\* that the mnemonic derives.
RepeatedAccountInputs ==
    AnyAccountInputs \cup
    {AccountArgs("", "mn1", DefaultDerivationPath), AccountArgs("", "mn1", "m/44'/60'/0'/0/1"),
     AccountArgs("0xd0", "", ""), AccountArgs("0xk1", "", DefaultDerivationPath)}

\* TwentySixAccount.Create called again and again, whenever.
AccountCreateAgainCall == AccountCreateAt(RepeatedAccountInputs)

\* The message one of the four building operations of the client makes at
\* second t for what ref names (a file, a spec, a hash to forget).
BuiltBy(operation, client, ref, t) ==
    LET failed == [kind |-> "transport"] IN
    CASE operation = "StoreFile" -> StoreFile(client, ref, t, failed, failed).built
      [] operation = "CreateInstance" ->
            CreateInstance(client, FunctionArgs(client.account, client.channel, ref),
                           t, failed).message
      [] operation = "CreateFunction" ->
            CreateFunction(client, FunctionArgs(client.account, client.channel, ref),
                           t, failed).message
      [] operation = "ForgetMessage" -> ForgetMessage(client, ref, t, failed).message

BuildMessageCall ==
    /\ pc = "idle"
    /\ ret.op = "none"
    /\ \E operation \in {"StoreFile", "CreateInstance", "CreateFunction", "ForgetMessage"},
          account \in {DerivedAccount, ZeroAccount,
                       AccountCreate(Name, AccountArgs("", "mn1", ""), FALSE).state},
          channel \in Channels, ref \in {"f1", "f2"}, t \in 0..MaxNow :
         ret' = [op |-> "BuildMessage", operation |-> operation, account |-> account,
                 channel |-> channel, at |-> t,
                 message |-> BuiltBy(operation, NewTwentySixClient(account, channel),
                                     ref, t)]
    /\ UNCHANGED <<now, folder, index, sched, acct, vols, funs, pc, poll, made, forgets>>
    /\ UNCHANGED <<tmp, proc>>

SignMessageCall ==
    /\ pc = "idle"
    /\ ret.op = "none"
    /\ \E msg \in SignInputs, pkey \in {"0xk1", "zz", "0x00", ""},
          recid \in {0, 1}, fill \in {0, 255} :
         ret' = [op |-> "SignMessage", msg |-> msg, pkey |-> pkey,
                 err |-> SignMessageErr(pkey), signed |-> SignMessage(msg, pkey),
                 recid |-> recid,
                 bytes |-> IF SignMessageErr(pkey) = "nil"
                           THEN SignatureBytes(recid, fill) ELSE <<>>]
    /\ UNCHANGED <<now, folder, index, sched, acct, vols, funs, pc, poll, made, forgets>>
    /\ UNCHANGED <<tmp, proc>>

----------------------------------------------------------------------------
\* TwentySixVolume.Create (volume.go:52-101) run by two calls at once, one
\* statement group at a time.  Call p packs its own folder.

FolderOf(p) == IF p = 1 THEN "c1" ELSE "c2"

OtherUnchanged ==
    UNCHANGED <<folder, sched, acct, vols, funs, made, forgets, pc, poll, ret>>

\* Lines 58-67: the folder is hashed and the name of the image is taken from
\* the clock, time.Now().Unix().
ConcStart(p) ==
    /\ proc[p].pc = "start"
    /\ proc' = [proc EXCEPT ![p].pc = "pack", ![p].path = now,
                            ![p].FolderHash = hashdirMake(FolderOf(p))]
    /\ UNCHANGED <<now, index, tmp>>
    /\ OtherUnchanged

\* Lines 72-79: mksquashfs.
ConcPack(p) ==
    /\ proc[p].pc = "pack"
    /\ \E ok \in BOOLEAN :
         IF ok
         THEN LET file == Mksquashfs(FolderOf(p), tmp[proc[p].path]) IN
              /\ tmp' = [tmp EXCEPT ![proc[p].path] = file]
              /\ proc' = [proc EXCEPT ![p].pc = "size", ![p].packed = file]
         ELSE /\ proc' = [proc EXCEPT ![p] = [NotStarted EXCEPT !.pc = "done",
                                                               !.path = proc[p].path,
                                                               !.err = "mksquashfs error"]]
              /\ UNCHANGED tmp
    /\ UNCHANGED <<now, index>>
    /\ OtherUnchanged

\* Lines 81-86: FolderSize of the image.
ConcSize(p) ==
    /\ proc[p].pc = "size"
    /\ LET file == tmp[proc[p].path] IN
       IF file = "none"
       THEN proc' = [proc EXCEPT ![p] = [NotStarted EXCEPT !.pc = "done",
                                                          !.path = proc[p].path,
                                                          !.packed = proc[p].packed,
                                                          !.err = "no such file"]]
       ELSE proc' = [proc EXCEPT ![p].pc = "store", ![p].Size = FolderSize(file)]
    /\ UNCHANGED <<now, index, tmp>>
    /\ OtherUnchanged

\* Lines 89-90: StoreFile of what the name holds.
ConcStore(p) ==
    /\ proc[p].pc = "store"
    /\ LET file == tmp[proc[p].path]
           client == NewTwentySixClient(DerivedAccount, "TEST")
       IN  IF file = "none"
           THEN /\ proc' = [proc EXCEPT ![p].pc = "remove", ![p].err = "no such file"]
                /\ UNCHANGED index
           ELSE \E upload \in {[kind |-> "transport"],
                                [kind |-> "json", code |-> 200, status |-> "pending",
                                 publication |-> "success",
                                 hash |-> "sha(" \o file \o ")"]} :
                  LET built == StoreFile(client, file, now, upload,
                                         [kind |-> "transport"]).built
                      r == StoreFile(client, file, now, upload,
                                     [kind |-> "json", messages |-> <<built>>])
                  IN  /\ index' = Process(index, built, upload)
                      /\ proc' = [proc EXCEPT ![p].pc = "remove", ![p].sent = file,
                                              ![p].err = r.err,
                                              ![p].FileHash = r.hash,
                                              ![p].MessageHash = r.message.ItemHash]
    /\ UNCHANGED <<now, tmp>>
    /\ OtherUnchanged

\* Lines 91-100: os.Remove of the name, then the return.
ConcRemove(p) ==
    /\ proc[p].pc = "remove"
    /\ tmp' = [tmp EXCEPT ![proc[p].path] = "none"]
    /\ proc' = IF proc[p].err # "nil"
               THEN [proc EXCEPT ![p] = [NotStarted EXCEPT !.pc = "done",
                                                          !.path = proc[p].path,
                                                          !.packed = proc[p].packed,
                                                          !.sent = proc[p].sent,
                                                          !.removed = tmp[proc[p].path],
                                                          !.err = proc[p].err]]
               ELSE [proc EXCEPT ![p].pc = "done", ![p].id = Name,
                                 ![p].removed = tmp[proc[p].path]]
    /\ UNCHANGED <<now, index>>
    /\ OtherUnchanged

\* A second passes.
Tick ==
    /\ now < MaxNow
    /\ now' = now + 1
    /\ UNCHANGED <<index, tmp, proc>>
    /\ OtherUnchanged

----------------------------------------------------------------------------
\* The environment

\* The content of the directory is changed.
FolderChange ==
    /\ vols # {}
    /\ \E c \in FolderContents \ {folder} : folder' = c
    /\ UNCHANGED <<now, index, sched, acct, vols, funs, pc, poll, ret, made, forgets>>
    /\ UNCHANGED <<tmp, proc>>

\* The scheduler allocates a PROGRAM message the index resolves.
Schedule ==
    /\ \E m \in index : /\ m.Type = "PROGRAM"
                        /\ m.ItemHash \notin sched
                        /\ sched' = sched \cup {m.ItemHash}
    /\ UNCHANGED <<now, folder, index, acct, vols, funs, pc, poll, ret, made, forgets>>
    /\ UNCHANGED <<tmp, proc>>

Next ==
    \/ AccountCreateCall
    \/ VolumeCreateCall
    \/ VolumeDiffCall
    \/ VolumeDeleteCall
    \/ FunctionCreateCall
    \/ FunctionCreatePoll
    \/ Cancel
    \/ FunctionDiffCall
    \/ FunctionDeleteCall
    \/ FolderChange
    \/ Schedule

Spec == Init /\ [][Next]_vars

\* The handlers of one resource kind with the environment they touch.
NextVolume ==
    \/ AccountCreateCall
    \/ VolumeCreateCall
    \/ VolumeDiffCall
    \/ VolumeDeleteCall
    \/ FolderChange

SpecVolume == Init /\ [][NextVolume]_vars

NextFunction ==
    \/ AccountCreateCall
    \/ FunctionCreateCall
    \/ FunctionCreatePoll
    \/ Cancel
    \/ FunctionDiffCall
    \/ FunctionDeleteCall
    \/ Schedule

SpecFunction == Init /\ [][NextFunction]_vars

\* Creation and deletion of both resource kinds.
NextDelete ==
    \/ AccountCreateCall
    \/ VolumeCreateCall
    \/ VolumeDeleteCall
    \/ FunctionCreateCall
    \/ FunctionCreatePoll
    \/ Cancel
    \/ FunctionDeleteCall

SpecDelete == Init /\ [][NextDelete]_vars

\* Two TwentySixVolume.Create calls at the same time.
NextConcurrent ==
    \/ \E p \in Procs : ConcStart(p)
    \/ \E p \in Procs : ConcPack(p)
    \/ \E p \in Procs : ConcSize(p)
    \/ \E p \in Procs : ConcStore(p)
    \/ \E p \in Procs : ConcRemove(p)
    \/ Tick

SpecConcurrent == Init /\ [][NextConcurrent]_vars

\* Creation and comparison of both resource kinds.
NextDiff ==
    \/ AccountCreateCall
    \/ VolumeCreateCall
    \/ FunctionCreateCall
    \/ FunctionCreatePoll
    \/ VolumeDiffCall
    \/ FunctionDiffCall

SpecDiff == Init /\ [][NextDiff]_vars

\* Repeated account creation while time passes.
NextAccount ==
    \/ AccountCreateAgainCall
    \/ Tick

SpecAccount == Init /\ [][NextAccount]_vars

\* The values of a pagination field the index reports: small ones, ones
\* whose products pass Word, and the largest.
WordSamples == {0, 1, 2, 3, Word \div 16, Word \div 3, Word - 1}

\* Every answer to the request of one page: a failure, or a JSON body with
\* any pagination fields.
AnyPageResponses ==
    NetFailures \cup
    {[kind |-> "json", messages |-> <<>>, page |-> p, perPage |-> s, total |-> t] :
        p \in WordSamples, s \in WordSamples, t \in WordSamples}

GetMessagesCall ==
    /\ pc = "idle"
    /\ ret.op = "none"
    /\ \E resp \in AnyPageResponses :
         LET r == GetMessages(resp) IN
         ret' = [op |-> "GetMessages", resp |-> resp, err |-> r.err,
                 messages |-> r.messages, remainingItems |-> r.remainingItems]
    /\ UNCHANGED <<now, folder, index, sched, acct, vols, funs, pc, poll, made, forgets>>
    /\ UNCHANGED <<tmp, proc>>

\* Single functions of the client.
NextClient ==
    \/ SignMessageCall
    \/ GetMessageByHashCall
    \/ GetVolumeByItemHashCall
    \/ AccountCreateAnyCall
    \/ BuildMessageCall
    \/ GetMessagesCall

SpecClient == Init /\ [][NextClient]_vars

----------------------------------------------------------------------------
\* Properties

Creates == {"AccountCreate", "VolumeCreate", "FunctionCreate"}

Deletes == {"VolumeDelete", "FunctionDelete"}

\* The arguments a state record embeds.
StateOfInput(op, input) ==
    CASE op = "AccountCreate" -> AccountStateOf(input)
      [] op = "VolumeCreate" -> VolumeStateOf(input)
      [] op = "FunctionCreate" -> FunctionStateOf(input)

Posts(http) == {i \in DOMAIN http : http[i] \in {"POST /api/v0/messages",
                                                  "POST /api/v0/storage/add_file"}}

\* C1: for Account, Volume and Function, Create called with preview = true
\* makes no HTTP request and returns the given name with a state equal to
\* the input, all derived outputs empty.
C1_PreviewIsDryRun ==
    (ret.op \in Creates /\ ret.preview) =>
        /\ ret.http = <<>>
        /\ ret.posted = {}
        /\ ret.id = Name
        /\ ret.err = "nil"
        /\ ret.state = StateOfInput(ret.op, ret.input)

\* The preview Create of a function has POSTed its PROGRAM message.
C1_FunctionPreviewPosts ==
    /\ ret.op = "FunctionCreate"
    /\ ret.preview
    /\ Posts(ret.http) # {}
    /\ \E m \in ret.posted : m.Type = "PROGRAM"

\* C2: when the existence check of Delete (Volume and Function) fails with
\* "message not found", Delete returns success and POSTs nothing, so no
\* FORGET is broadcast.
C2_DeleteNotFoundSucceeds ==
    (ret.op \in Deletes /\ ret.resolved = "message not found") =>
        /\ ret.err = "nil"
        /\ ret.posted = {}
        /\ Posts(ret.http) = {}

C2_FunctionNotFound ==
    /\ ret.op = "FunctionDelete"
    /\ ret.resolved = "message not found"
    /\ ret.err = "nil"

\* C3: when the existence check of Delete fails with another error than
\* "message not found" (the request fails, the answer does not parse), Delete
\* returns that error and broadcasts no FORGET.
C3_DeleteSurfacesLookupErrors ==
    (ret.op \in Deletes /\ ret.resolved \in {"transport error", "invalid json"}) =>
        /\ ret.err = ret.resolved
        /\ ret.posted = {}
        /\ Posts(ret.http) = {}

C3_LookupFailed ==
    /\ ret.op \in Deletes
    /\ ret.onIndex
    /\ ret.resolved = "invalid json"
    /\ ret.err = "invalid json"

\* C4 as stated: whenever Delete returns an error, the message was resolved on
\* the index and the FORGET could not be carried out; a failure of the
\* existence check never makes Delete fail.
C4_ErrorOnlyAfterResolution ==
    (ret.op \in Deletes /\ ret.err # "nil") =>
        /\ ret.resolved = "nil"
        /\ ret.forget \notin {"none", "accepted"}

\* C4 amended: Delete returns an error either because the existence check failed
\* with another error than "message not found" (that error is returned and
\* nothing is POSTed), or because the message was resolved and the FORGET
\* request itself failed; "message not found" never makes Delete fail.
C4_DeleteErrorCases ==
    /\ (ret.op \in Deletes /\ ret.err # "nil") =>
          \/ /\ ret.resolved \in {"transport error", "invalid json"}
             /\ ret.err = ret.resolved
             /\ ret.posted = {}
          \/ /\ ret.resolved = "nil"
             /\ ret.forget = "transport"
             /\ ret.err = "transport error"
    /\ (ret.op \in Deletes /\ ret.resolved = "message not found") => ret.err = "nil"

\* Delete failed on the existence check although the index holds the message.
C4_ExistenceCheckFailsDelete ==
    /\ ret.op \in Deletes
    /\ ret.err = "transport error"
    /\ ret.resolved = "transport error"
    /\ ret.onIndex

\* C5: when the message resolves and the index answers the FORGET with a
\* rejected status or a body that does not parse, Delete returns an error.
C5_RejectedForgetFailsDelete ==
    (ret.op \in Deletes /\ ret.resolved = "nil" /\ ret.forget \in {"refused", "unparsable"}) =>
        ret.err # "nil"

\* A Delete reported as done while the index still resolves the message.
C5_RejectedForgetReportedDone ==
    /\ ret.op \in Deletes
    /\ ret.forget = "refused"
    /\ ret.err = "nil"
    /\ ret.olds.MessageHash \in IndexHashes

\* C6: one Delete of a volume broadcasts at most one FORGET, for the message
\* of the state; once the index has taken a FORGET of that message and resolves
\* it no longer, a further Delete returns success and broadcasts nothing, so
\* no FORGET of a message follows the one that removed it.
C6_RepeatedDeleteForgetsOnce ==
    /\ \A f, g \in forgets :
          (f.hash = g.hash /\ f.taken /\ g.time >= f.time) => f = g
    /\ ret.op = "VolumeDelete" =>
          /\ Cardinality(ret.posted) <= 1
          /\ \A m \in ret.posted : /\ m.Type = "FORGET"
                                   /\ m.ItemContent.ref = ret.olds.MessageHash
                                   /\ ret.onIndex
          /\ (~ret.onIndex /\ ret.resolved = "message not found") =>
                (ret.err = "nil" /\ ret.posted = {} /\ Posts(ret.http) = {})

\* A second Delete of a volume whose FORGET the index took.
C6_SecondDelete ==
    /\ ret.op = "VolumeDelete"
    /\ ~ret.onIndex
    /\ ret.err = "nil"
    /\ ret.posted = {}
    /\ Cardinality({f \in forgets : f.hash = ret.olds.MessageHash}) = 1
    /\ \E f \in forgets : f.hash = ret.olds.MessageHash /\ f.taken

\* C7: a Volume Diff that returns a DiffResponse has HasChanges = false if and
\* only if the hash of the desired directory equals olds.FolderHash and
\* GetMessageByHash(olds.MessageHash) succeeds.
C7_NoChangesIffBoth ==
    (ret.op = "VolumeDiff" /\ ret.err = "nil") =>
        (ret.HasChanges = FALSE <=>
            (hashdirMake(ret.dir) = ret.olds.FolderHash /\ ret.resolved = "nil"))

\* The hash matches and the lookup alone fails: changes are reported.
C7_LookupAloneFails ==
    /\ ret.op = "VolumeDiff"
    /\ ret.err = "nil"
    /\ hashdirMake(ret.dir) = ret.olds.FolderHash
    /\ ret.resolved # "nil"
    /\ ret.HasChanges

\* C8: a Volume Diff sets DeleteBeforeReplace exactly when the old message
\* cannot be resolved, whatever the directory hash; when the message resolves
\* and the hash differs it returns HasChanges and no DeleteBeforeReplace.
C8_ReplaceIffUnresolved ==
    (ret.op = "VolumeDiff" /\ ret.err = "nil") =>
        /\ ret.DeleteBeforeReplace <=> (ret.resolved # "nil")
        /\ (ret.resolved = "nil" /\ hashdirMake(ret.dir) # ret.olds.FolderHash) =>
              (ret.HasChanges /\ ~ret.DeleteBeforeReplace)

C8_ContentAloneDiffers ==
    /\ ret.op = "VolumeDiff"
    /\ ret.err = "nil"
    /\ ret.resolved = "nil"
    /\ hashdirMake(ret.dir) # ret.olds.FolderHash
    /\ ret.HasChanges
    /\ ~ret.DeleteBeforeReplace

\* C9: Function Diff returns HasChanges and DeleteBeforeReplace when the
\* recorded spec fields differ from the new ones or the scheduler query for
\* the recorded instance fails; it returns HasChanges = false only when the
\* specs are equal and the query succeeds.
C9_FunctionDiffLiveness ==
    ret.op = "FunctionDiff" =>
        /\ (ret.olds.Spec # ret.news.Spec \/ ret.live # "nil") =>
              (ret.HasChanges /\ ret.DeleteBeforeReplace)
        /\ ~ret.HasChanges => (ret.olds.Spec = ret.news.Spec /\ ret.live = "nil")

\* No changes are reported although the scheduler query failed.
C9_NoChangesWhenQueryFails ==
    /\ ret.op = "FunctionDiff"
    /\ ret.live # "nil"
    /\ ret.olds.Spec = ret.news.Spec
    /\ ~ret.HasChanges

\* C10: Diff of the state a successful Volume Create returned, with the
\* arguments of that Create, the directory as it was and the message of the
\* state resolvable on the index, returns HasChanges = false.
C10_CreateThenDiff ==
    (/\ ret.op = "VolumeDiff"
     /\ ret.news = made.input
     /\ ret.dir = made.dir
     /\ ret.resolved = "nil") =>
        (ret.err = "nil" /\ ~ret.HasChanges /\ ~ret.DeleteBeforeReplace)

C10_RoundTrip ==
    /\ ret.op = "VolumeDiff"
    /\ ret.olds \in vols
    /\ ret.news = made.input
    /\ ret.dir = made.dir
    /\ ret.resolved = "nil"
    /\ ~ret.HasChanges

\* The last handler call was a Function Create that went through its loop.
Polled == ret.op = "FunctionCreate" /\ "failed" \in DOMAIN ret

Allocation(resp) == resp.kind = "json" /\ resp.code = 200

\* C11: a Function Create whose polls were all answered not-found or failed
\* ends with the timeout error and never returns success.
C11_NoAllocationNoSuccess ==
    (Polled /\ ~Allocation(ret.answer)) => ret.err = "timeout waiting for instance"

\* Create succeeded on a not-found answer of the scheduler.
C11_SuccessOnNotFound ==
    /\ Polled
    /\ ret.answer.kind = "json"
    /\ ret.answer.code = 404
    /\ ret.err = "nil"
    /\ ret.state.SchedulerAllocation.VmHash = ""
    /\ ret.state.MessageHash \notin sched

\* C12: Function Create returns the timeout error only when more than 1800
\* seconds have elapsed since polling started; while at most 1800 seconds have
\* elapsed a failed poll leads to another poll one 10-second sleep later,
\* never to a failure.
C12_TimeoutOnlyAfterBound ==
    /\ (Polled /\ ret.err # "nil") =>
          /\ ret.err = "timeout waiting for instance"
          /\ ret.elapsed > timeout
          /\ GetInstanceState(ret.answer).err # "nil"
    /\ Polled => ret.elapsed >= Interval * (ret.failed + 1)
    /\ pc = "polling" =>
          /\ poll.elapsed <= timeout
          /\ poll.elapsed >= Interval * poll.polls

C12_TimedOut ==
    /\ Polled
    /\ ret.err = "timeout waiting for instance"
    /\ ret.failed >= 1
    /\ ret.elapsed > timeout

\* C13: when polls of a Function Create fail and a later poll returns an
\* allocation, Create succeeds and the state it returns carries the allocation
\* of that poll.
C13_TransientErrorsRetried ==
    (Polled /\ ret.failed >= 1 /\ Allocation(ret.answer)) =>
        /\ ret.err = "nil"
        /\ ret.id = Name
        /\ ret.state.SchedulerAllocation = [VmHash |-> ret.answer.VmHash]
        /\ ret.state \in funs

C13_AllocatedAfterFailures ==
    /\ Polled
    /\ ret.failed >= 1
    /\ Allocation(ret.answer)
    /\ ret.err = "nil"
    /\ ret.state.SchedulerAllocation.VmHash = ret.state.MessageHash

\* The last handler call was a Create that has returned.
Created == ret.op \in Creates /\ "err" \in DOMAIN ret

ZeroStateOf(op) ==
    CASE op = "AccountCreate" -> ZeroAccount
      [] op = "VolumeCreate" -> ZeroVolumeState
      [] op = "FunctionCreate" -> ZeroFunctionState

Gets(http) == {i \in DOMAIN http : http[i] \in {"GET /api/v0/messages.json",
                                                 "GET /api/v0/allocation"}}

\* C14: when the index answers the create broadcast or the file upload with
\* a rejected status, Create fails with an error, makes no allocation poll
\* and no index re-query, and returns no state.
C14_RejectedBroadcastFailsCreate ==
    (Created /\ ret.broadcast = "rejected") =>
        /\ Gets(ret.http) = {}
        /\ ret.err # "nil"
        /\ ret.id = ""
        /\ ret.state = ZeroStateOf(ret.op)

\* A Volume Create that succeeded although its upload was rejected.
C14_RejectedUploadSucceeds ==
    /\ ret.op = "VolumeCreate"
    /\ ret.broadcast = "rejected"
    /\ Gets(ret.http) # {}
    /\ ret.err = "nil"
    /\ ret.state.MessageHash # ""

\* C15: whenever Create (Account, Volume, Function) returns an error, the id
\* it returns is empty and the state is the zero value: nothing computed
\* before the failure is handed back.
C15_FailedCreateReturnsNothing ==
    (Created /\ ret.err # "nil") =>
        /\ ret.id = ""
        /\ ret.state = ZeroStateOf(ret.op)

\* A Volume Create that fails after the directory was hashed and uploaded.
C15_FailedAfterUpload ==
    /\ ret.op = "VolumeCreate"
    /\ ret.err = "volume not found"
    /\ Posts(ret.http) # {}
    /\ ret.state = ZeroVolumeState
    /\ ret.id = ""

\* C16: a Volume Create whose upload was taken succeeds when the index lists
\* the new STORE message only after the first re-query: a not-yet-indexed
\* result is retried, it does not fail the Create.
C16_NotYetIndexedIsRetried ==
    (ret.op = "VolumeCreate" /\ ret.broadcast = "pending" /\ ret.indexed) =>
        ret.err # "volume not found"

\* The Create failed after one re-query; the index holds the new message.
C16_FailedOnFirstRequery ==
    /\ ret.op = "VolumeCreate"
    /\ ret.broadcast = "pending"
    /\ ret.err = "volume not found"
    /\ Cardinality(Gets(ret.http)) = 1
    /\ \A m \in ret.posted : m \in index

\* C17: after a successful Create, state.MessageHash is the item hash of the
\* message this Create built, signed and broadcast, for Volume and Function,
\* also when the index holds an older STORE message of the same sender and
\* channel for the same file hash.
C17_MessageHashIsOwn ==
    (Created /\ ret.op # "AccountCreate" /\ ret.err = "nil" /\ ret.posted # {}) =>
        ret.state.MessageHash \in {m.ItemHash : m \in ret.posted}

\* The state carries the hash of an older message, the new one being indexed.
C17_OlderMessageReturned ==
    /\ ret.op = "VolumeCreate"
    /\ ret.err = "nil"
    /\ ret.posted # {}
    /\ ret.indexed
    /\ ret.state.MessageHash \notin {m.ItemHash : m \in ret.posted}
    /\ ret.state.MessageHash \in IndexHashes

\* The messages the last handler call POSTed.
Posted == IF "posted" \in DOMAIN ret THEN ret.posted ELSE {}

\* C18: every hash a successful Create places in the state it returns (Volume
\* FileHash and MessageHash, Function MessageHash) is 64 lowercase hexadecimal
\* characters, whatever the index answered.
C18_StateHashesAreHex64 ==
    (Created /\ ret.op # "AccountCreate" /\ ret.err = "nil" /\ ret.posted # {}) =>
        /\ Hex64(ret.state.MessageHash)
        /\ ret.op = "VolumeCreate" => Hex64(ret.state.FileHash)

\* The state carries the hashes the index answered, not digests.
C18_ForeignHashInState ==
    /\ ret.op = "VolumeCreate"
    /\ ret.err = "nil"
    /\ ret.state.FileHash = ForeignHash
    /\ ret.state.MessageHash = ForeignHash
    /\ \A m \in ret.posted : Hex64(m.ItemHash) /\ Hex64(m.ItemContent.ref)

C20_NoUnsignedBroadcast ==
    \A m \in Posted : m.Signature # ""

\* A message was POSTed without a signature, the key not being valid hex.
C20_UnsignedMessagePosted ==
    /\ ret.op \in {"VolumeCreate", "FunctionCreate"}
    /\ ~HexDecodeOk(ret.input.Account.PrivateKey)
    /\ Posts(ret.http) # {}
    /\ \E m \in ret.posted : m.Signature = ""

\* C21: every signature SignMessage produces is 65 bytes long and its last
\* byte is the recovery id (0 or 1) plus 27, that is 27 or 28.
C21_RecoveryByte ==
    (ret.op = "SignMessage" /\ ret.err = "nil") =>
        /\ Len(ret.bytes) = 65
        /\ ret.bytes[65] \in {27, 28}
        /\ ret.bytes[65] = ret.recid + 27
        /\ ret.signed.Signature # ""

C21_Signed ==
    /\ ret.op = "SignMessage"
    /\ ret.err = "nil"
    /\ ret.recid = 1
    /\ ret.bytes[65] = 28
    /\ ret.bytes[1] = 255

\* C22: GetMessageByHash returns "message not found", and no message,
\* whenever the JSON answer reports a total other than 1, whatever the answer
\* lists.
C22_NotFoundUnlessOne ==
    (ret.op = "GetMessageByHash" /\ ret.resp.kind = "json" /\ ret.resp.total # 1) =>
        /\ ret.err = "message not found"
        /\ ret.message = ZeroMessage

C22_TwoRecords ==
    /\ ret.op = "GetMessageByHash"
    /\ ret.pkg = "basics"
    /\ ret.resp.kind = "json"
    /\ ret.resp.total = 2
    /\ Len(ret.resp.messages) = 2
    /\ ret.err = "message not found"

\* C23: on a JSON answer with total 1 GetMessageByHash never indexes outside
\* the message list, and returns the listed record when there is exactly one.
C23_NeverOutsideList ==
    (ret.op = "GetMessageByHash" /\ ret.resp.kind = "json" /\ ret.resp.total = 1) =>
        /\ ret.err # "panic"
        /\ Len(ret.resp.messages) = 1 =>
              (ret.err = "nil" /\ ret.message = ret.resp.messages[1])

C23_EmptyListIndexed ==
    /\ ret.op = "GetMessageByHash"
    /\ ret.pkg = "basics"
    /\ ret.resp.kind = "json"
    /\ ret.resp.total = 1
    /\ ret.resp.messages = <<>>
    /\ ret.err = "panic"

\* C28: GetVolumeByItemHash requests the pages 1, 2, 3, ... in order; it
\* returns "volume not found" only after the last page and when no stored
\* message refers to the hash; when no request fails and some stored message
\* refers to the hash, the first of them is returned.
C28_AllPagesInspected ==
    ret.op = "GetVolumeByItemHash" =>
        LET matches == {i \in 1..Len(ret.stored) : ret.stored[i].ItemContent.ref = ret.hash}
            lastPage == IF Len(ret.stored) = 0 THEN 1
                        ELSE (Len(ret.stored) + PageSize - 1) \div PageSize
        IN  /\ ret.pages = [i \in 1..Len(ret.pages) |-> i]
            /\ ret.err = "volume not found" =>
                  (matches = {} /\ Len(ret.pages) = lastPage)
            /\ (ret.failAt = 0 /\ matches # {}) =>
                  /\ ret.err = "nil"
                  /\ \E i \in matches : /\ ret.message = ret.stored[i]
                                        /\ \A j \in matches : i <= j
            /\ (ret.failAt = 0 /\ matches = {}) => ret.err = "volume not found"

C28_FoundOnSecondPage ==
    /\ ret.op = "GetVolumeByItemHash"
    /\ ret.err = "nil"
    /\ ret.pages = <<1, 2>>
    /\ ret.message.ItemContent.ref = ret.hash
    /\ Len(ret.stored) = 4

\* C29: a non-preview account Create succeeds only when exactly one of the
\* private key and the mnemonic is supplied.
C29_ExactlyOneSecret ==
    (ret.op = "AccountCreate" /\ ~ret.preview /\ ret.err = "nil") =>
        ((ret.input.PrivateKey # "") # (ret.input.Mnemonic # ""))

C29_BothSuppliedKeyUsed ==
    /\ ret.op = "AccountCreate"
    /\ ~ret.preview
    /\ ret.input.PrivateKey = "0xk1"
    /\ ret.input.Mnemonic = "mn1"
    /\ ret.err = "nil"
    /\ ret.state.Address = AddressOf("0xk1")
    /\ acct = ret.state

C24_OwnArtifactOnly ==
    \A p \in Procs :
        (proc[p].pc = "done" /\ proc[p].err = "nil") =>
            /\ proc[p].sent = Squashfs(FolderOf(p))
            /\ proc[p].FileHash = "sha(" \o Squashfs(FolderOf(p)) \o ")"
            /\ proc[p].FolderHash = hashdirMake(FolderOf(p))
            /\ proc[p].removed \in {"none", Squashfs(FolderOf(p))}

C24_SameSecondSharedArtifact ==
    /\ proc[1].pc = "done"
    /\ proc[2].pc = "done"
    /\ proc[1].path = proc[2].path
    /\ proc[1].err = "nil"
    /\ proc[2].err = "nil"
    /\ proc[1].FileHash = proc[2].FileHash
    /\ proc[1].sent = Squashfs("c2") \o "+" \o Squashfs("c1")

\* C25: once the caller has cancelled (or its deadline has passed) the
\* polling loop of Function Create makes no further turn, and the Create does
\* not end with the error of the engine's own timeout.
C25_CancelStopsPolling ==
    /\ (pc = "polling" /\ poll.cancelled >= 0) => poll.polls = poll.cancelled
    /\ (Polled /\ ret.cancelled >= 0) =>
          (ret.failed = ret.cancelled /\ ret.err # "timeout waiting for instance")

C25_CancelledRunsToTimeout ==
    /\ Polled
    /\ ret.cancelled = 0
    /\ ret.failed > 0
    /\ ret.elapsed > timeout
    /\ ret.err = "timeout waiting for instance"

C27_UploadErrorNoRequery ==
    (ret.op = "VolumeCreate" /\ ret.http # <<>>
        /\ (ret.broadcast = "unparsable"
            \/ (ret.broadcast # "transport" /\ ret.code \notin 200..299))) =>
        /\ ret.err # "nil"
        /\ ret.id = ""
        /\ ret.http = <<"POST /api/v0/storage/add_file">>

C27_RequeryAfterErrorStatus ==
    /\ ret.op = "VolumeCreate"
    /\ ret.http = <<"POST /api/v0/storage/add_file", "GET /api/v0/messages.json">>
    /\ ret.code = 500
    /\ ret.err = "volume not found"

\* C31: an account Create whose mnemonic fails validation, or whose
\* derivation path does not parse, returns an error value to the caller: it
\* neither terminates the process nor panics.
C31_InvalidMnemonicReturned ==
    (ret.op = "AccountCreate" /\ ~ret.preview /\ ret.input.PrivateKey = ""
        /\ ret.input.Mnemonic # ""
        /\ (~MnemonicOk(ret.input.Mnemonic)
            \/ (ret.input.DerivationPath # ""
                /\ ~DerivationPathOk(ret.input.DerivationPath)))) =>
        ret.err \notin {"nil", "fatal", "panic"}

C31_ProcessExits ==
    /\ ret.op = "AccountCreate"
    /\ ~ret.preview
    /\ ret.input = AccountArgs("", "bad", "")
    /\ ret.err = "fatal"

C33_FunctionCreateThenDiff ==
    (ret.op = "FunctionDiff"
        /\ ret.olds \in funs
        /\ ret.news = FunctionArgs(ret.olds.Account, ret.olds.Channel, ret.olds.Spec)
        /\ Allocation(ret.answer)) =>
        /\ ret.err = "nil"
        /\ ~ret.HasChanges
        /\ ~ret.DeleteBeforeReplace

C33_UnchangedFunctionReplaced ==
    /\ ret.op = "FunctionDiff"
    /\ ret.olds \in funs
    /\ ret.news = FunctionArgs(ret.olds.Account, ret.olds.Channel, ret.olds.Spec)
    /\ Allocation(ret.answer)
    /\ ret.answer.VmHash = ret.olds.MessageHash
    /\ ret.HasChanges
    /\ ret.DeleteBeforeReplace

C35_ResolvedDeleteSucceeds ==
    (ret.op \in Deletes /\ ret.resolved = "nil") =>
        /\ Cardinality(ret.posted) = 1
        /\ \A m \in ret.posted : m.Type = "FORGET" /\ m.ItemContent.ref = ret.olds.MessageHash
        /\ ret.err = "nil"

\* C35: a Delete whose message resolves POSTs exactly one message, a FORGET
\* whose payload names the hash of the resolved message and nothing else; it
\* returns success when the index took the FORGET and the error of the
\* request when the request failed; no other operation broadcasts a FORGET.
C35_OneForgetPerResolvedDelete ==
    /\ (ret.op \in Deletes /\ ret.resolved = "nil") =>
          /\ Cardinality(ret.posted) = 1
          /\ Cardinality(Posts(ret.http)) = 1
          /\ ret.http = <<"GET /api/v0/messages.json", "POST /api/v0/messages">>
          /\ \A m \in ret.posted :
                /\ m.Type = "FORGET"
                /\ m.ItemContent.kind = "FORGET"
                /\ m.ItemContent.ref = ret.olds.MessageHash
          /\ ret.forget = "accepted" => ret.err = "nil"
          /\ ret.forget = "transport" => ret.err = "transport error"
    /\ \A m \in Posted : m.Type = "FORGET" => ret.op \in Deletes

C35_ForgetRequestFailed ==
    /\ ret.op = "VolumeDelete"
    /\ ret.resolved = "nil"
    /\ ret.forget = "transport"
    /\ ret.err = "transport error"
    /\ \E m \in ret.posted : m.Type = "FORGET" /\ m.ItemContent.ref = ret.olds.MessageHash

\* C36: a Diff of a volume or of a function makes GET requests only: it
\* POSTs nothing, broadcasts no message, and leaves the messages on the index
\* and the FORGETs sent as they were.  A step that leaves a new Diff result
\* in ret is a Diff.
C36_DiffReadsOnly ==
    [][(ret'.op \in {"VolumeDiff", "FunctionDiff"} /\ ret' # ret) =>
          /\ Posts(ret'.http) = {}
          /\ Gets(ret'.http) = DOMAIN ret'.http
          /\ ret'.posted = {}
          /\ index' = index
          /\ forgets' = forgets]_vars

C36_DiffQueriedIndex ==
    /\ ret.op = "VolumeDiff"
    /\ ret.HasChanges
    /\ ret.http = <<"GET /api/v0/messages.json">>
    /\ index # {}
    /\ funs # {}

\* C37: a Volume Diff returns an error exactly when hashing the desired
\* directory fails, and then without a request; a lookup that fails, in
\* transport or in parsing or with "message not found", gives HasChanges and
\* DeleteBeforeReplace with a nil error.
C37_LookupFailureIsNoDiffError ==
    ret.op = "VolumeDiff" =>
        /\ ret.err # "nil" <=> ~folderExists(ret.dir)
        /\ ret.err # "nil" => ret.http = <<>>
        /\ (folderExists(ret.dir) /\ ret.resolved # "nil") =>
              (ret.err = "nil" /\ ret.HasChanges /\ ret.DeleteBeforeReplace)

C37_TransportFailureReportedAsChange ==
    /\ ret.op = "VolumeDiff"
    /\ ret.resolved = "transport error"
    /\ ret.olds.MessageHash \in IndexHashes
    /\ ret.err = "nil"
    /\ ret.HasChanges
    /\ ret.DeleteBeforeReplace

\* C38: a non-preview Function Create POSTs exactly one message, of type
\* PROGRAM, and no Function Create broadcasts a FORGET; when it ends with the
\* timeout error its PROGRAM message, which the index took, is still on the
\* index while the id and the state returned are empty.
C38_TimedOutCreateLeavesMessage ==
    /\ (ret.op = "FunctionCreate" /\ ~ret.preview) =>
          /\ Cardinality(ret.posted) = 1
          /\ Cardinality(Posts(ret.http)) = 1
          /\ \A m \in ret.posted : m.Type = "PROGRAM"
    /\ ret.op = "FunctionCreate" => \A m \in ret.posted : m.Type # "FORGET"
    /\ (Polled /\ ret.err = "timeout waiting for instance") =>
          /\ ret.broadcast = "pending"
          /\ \A m \in ret.posted : m \in index
          /\ ret.id = ""
          /\ ret.state = ZeroFunctionState
          /\ \A f \in funs : \A m \in ret.posted : f.MessageHash # m.ItemHash
          /\ \A f \in forgets : \A m \in ret.posted : f.hash # m.ItemHash

C38_OrphanedProgram ==
    /\ Polled
    /\ ~ret.preview
    /\ ret.err = "timeout waiting for instance"
    /\ \E m \in index : m.Type = "PROGRAM" /\ m \in ret.posted
    /\ funs = {}

----------------------------------------------------------------------------
\* TwentySixClient.WaitMessageConfirmation

\* The timeouts and intervals, in seconds, a wait is called with.
WaitTimeouts == {0, 1}

WaitIntervals == {0, 1}

\* Every answer to a fetch of the awaited message: a failure, or a JSON body
\* with a total and at most one message, confirmed being the Confirmed field
\* of that message.
WaitResponses ==
    NetFailures \cup
    {[kind |-> "json", total |-> t, messages |-> <<m>>, confirmed |-> c] :
        t \in 0..1, m \in ListedMessages, c \in BOOLEAN}

\* The fetch before the loop and the first test of the loop condition: the
\* error of the fetch is returned, a confirmed message ends the wait with nil.
WaitFirstFetch(fetch, confirmed) ==
    IF fetch.err # "nil" THEN [done |-> TRUE, err |-> fetch.err]
    ELSE IF confirmed THEN [done |-> TRUE, err |-> "nil"]
    ELSE [done |-> FALSE, err |-> "nil"]

\* One iteration of the loop after the sleep: the fetch, its error returned,
\* then the clock read at t and compared with startAt + timeout, and only
\* then the loop condition on the fetched copy.
WaitIteration(fetch, confirmed, t, startAt, wait) ==
    IF fetch.err # "nil" THEN [done |-> TRUE, err |-> fetch.err]
    ELSE IF t > startAt + wait
    THEN [done |-> TRUE, err |-> "message confirmation timeout"]
    ELSE IF confirmed THEN [done |-> TRUE, err |-> "nil"]
    ELSE [done |-> FALSE, err |-> "nil"]

\* The call: startAt is read, the message fetched once.
WaitMessageConfirmationCall ==
    /\ pc = "idle"
    /\ ret.op = "none"
    /\ \E wait \in WaitTimeouts, interval \in WaitIntervals, resp \in WaitResponses :
         LET fetch == GetMessageByHash(resp)
             confirmed == fetch.err = "nil" /\ resp.confirmed
             r == WaitFirstFetch(fetch, confirmed)
         IN  ret' = [op |-> "WaitMessageConfirmation", startAt |-> now,
                     timeout |-> wait, interval |-> interval,
                     fetches |-> 1, fetched |-> fetch.err, confirmed |-> confirmed,
                     at |-> now, done |-> r.done, err |-> r.err]
    /\ UNCHANGED <<now, folder, index, sched, acct, vols, funs, pc, poll, made, forgets>>
    /\ UNCHANGED <<tmp, proc>>

\* One turn of the loop of a wait that has not returned: the sleep and the
\* fetch take d >= interval seconds together.
WaitMessageConfirmationLoop ==
    /\ ret.op = "WaitMessageConfirmation"
    /\ ~ret.done
    /\ ret.fetches <= MaxPolls
    /\ \E d \in 0..MaxNow, resp \in WaitResponses :
         /\ d >= ret.interval
         /\ now + d <= MaxNow
         /\ now' = now + d
         /\ LET fetch == GetMessageByHash(resp)
                confirmed == fetch.err = "nil" /\ resp.confirmed
                r == WaitIteration(fetch, confirmed, now + d, ret.startAt, ret.timeout)
            IN  ret' = [ret EXCEPT !.fetches = @ + 1, !.fetched = fetch.err,
                                   !.confirmed = confirmed, !.at = now + d,
                                   !.done = r.done, !.err = r.err]
    /\ UNCHANGED <<folder, index, sched, acct, vols, funs, pc, poll, made, forgets>>
    /\ UNCHANGED <<tmp, proc>>

\* Waits for a confirmation, started at any time.
NextWait ==
    \/ WaitMessageConfirmationCall
    \/ WaitMessageConfirmationLoop
    \/ Tick

SpecWait == Init /\ [][NextWait]_vars

Waited == ret.op = "WaitMessageConfirmation" /\ ret.done

\* C39: WaitMessageConfirmation returns nil whenever the most recent fetch
\* shows the message confirmed, also when that fetch completes after the
\* timeout; it returns the timeout error only when the latest fetched copy is
\* unconfirmed and more than timeout seconds have passed; the error of a
\* failed fetch is returned at that fetch, which is the last one.
C39_ConfirmedFetchReturnsNil ==
    /\ (Waited /\ ret.fetched = "nil" /\ ret.confirmed) => ret.err = "nil"
    /\ (Waited /\ ret.err = "message confirmation timeout") =>
          /\ ret.fetched = "nil"
          /\ ~ret.confirmed
          /\ ret.at > ret.startAt + ret.timeout
    /\ (ret.op = "WaitMessageConfirmation" /\ ret.fetched # "nil") =>
          ret.done /\ ret.err = ret.fetched

\* A wait whose last fetch, finished after the timeout, showed the message
\* confirmed, and which returned the timeout error.
C39_ConfirmedAfterTimeoutIsTimeout ==
    /\ Waited
    /\ ret.fetches > 1
    /\ ret.fetched = "nil" /\ ret.confirmed
    /\ ret.at > ret.startAt + ret.timeout
    /\ ret.err = "message confirmation timeout"

\* C40: GetMessages returns total - page * perPage as the remaining count
\* when page * perPage <= total and 0 otherwise, on the page, per-page and
\* total values the index reported; the count never exceeds total and never
\* underflows, the product of page and perPage being taken modulo the word
\* size.
C40_RemainingCount ==
    (ret.op = "GetMessages" /\ ret.err = "nil") =>
        LET product == (ret.resp.page * ret.resp.perPage) % Word IN
        /\ ret.remainingItems \in 0..ret.resp.total
        /\ product <= ret.resp.total => ret.remainingItems + product = ret.resp.total
        /\ product > ret.resp.total => ret.remainingItems = 0

\* A page answer whose product of page and per-page count passed the word size
\* and wrapped below the total, leaving a positive remaining count.
C40_ProductWrapped ==
    /\ ret.op = "GetMessages" /\ ret.err = "nil"
    /\ ret.resp.page * ret.resp.perPage >= Word
    /\ ret.resp.page * ret.resp.perPage > ret.resp.total
    /\ ret.remainingItems > 0

====
